---- MODULE Spec2Model ----
(***************************************************************************)
(* A model of the abstract extraction engine of abstract_extractor.py:     *)
(* class AbstractExtractor (candidate generation by regular expressions,   *)
(* JSON-LD and meta tags, normalization, quality filter, deduplication and *)
(* selection).  Texts are strings; every regular expression of the source  *)
(* is evaluated character by character by a small backtracking matcher     *)
(* with Python's priorities (greedy / lazy, leftmost, non-overlapping).    *)
(* The loops of the pipeline around it are modelled one iteration per      *)
(* step: DatabaseConnection.insert_row_by_row (etl_openalex_simplified.py),*)
(* fetch_morocco_struct (etl_hal.py) and the scrape loop                   *)
(* (Abstract_scrapper.py).                                                 *)
(***************************************************************************)
EXTENDS Integers, Sequences, FiniteSets, TLC

VARIABLES
    min_length,        \* AbstractExtractor.min_length
    max_length,        \* AbstractExtractor.max_length
    verbose,           \* AbstractExtractor.verbose
    html_content,      \* the argument of the public call
    abstracts,         \* the argument of a private list method
    text,              \* the argument of _clean_html
    op,                \* the method that ran last ("none" before any call)
    all_abstracts,     \* local of extract / extract_all: the candidate pool
    filtered,          \* local: what _filter_quality_abstracts returned
    unique_abstracts,  \* local: what _remove_duplicates returned
    result,            \* the value returned by the last call
    raised,            \* the exception the last call ended with ("" if none)
    calls,             \* number of calls made on this extractor
    \* DatabaseConnection.insert_row_by_row
    rows,              \* the argument: for each row, what the database does with it
    row_number,        \* how many rows the for loop has taken
    inserted,          \* local: the counter
    transaction,       \* the rows executed in the open transaction of self.conn
    table_rows,        \* the rows committed to the table, in commit order
    rolled_back,       \* the transactions discarded by self.conn.rollback(), in order
    loader_pc,         \* "idle", "loop", "returned"
    \* fetch_morocco_struct
    max_pages,         \* the argument
    cursor,            \* local: the cursorMark of the next request
    all_docs,          \* local: the documents collected
    page,              \* how many requests the for loop has made
    sent,              \* the cursorMark of each request made, in order
    received,          \* the response to each request: its docs and nextCursorMark
    hal_pc,            \* "idle", "loop", "returned", "raised"
    \* the scrape loop of Abstract_scrapper.py
    results,           \* cursor.fetchall(): rows <<work_id, doi>>
    scraped,           \* how many rows the for loop has taken
    failed_links,      \* the rows written to failed_links.csv, the header first
    saved,             \* the work_id of every abstract file written
    scraper_pc         \* "idle", "loop", "done"

extractor_vars == <<min_length, max_length, verbose, html_content, abstracts, text, op,
                    all_abstracts, filtered, unique_abstracts, result, raised, calls>>
loader_vars  == <<rows, row_number, inserted, transaction, table_rows, rolled_back, loader_pc>>
hal_vars     == <<max_pages, cursor, all_docs, page, sent, received, hal_pc>>
scraper_vars == <<results, scraped, failed_links, saved, scraper_pc>>

vars == <<min_length, max_length, verbose, html_content, abstracts, text, op,
          all_abstracts, filtered, unique_abstracts, result, raised, calls,
          rows, row_number, inserted, transaction, table_rows, rolled_back, loader_pc,
          max_pages, cursor, all_docs, page, sent, received, hal_pc,
          results, scraped, failed_links, saved, scraper_pc>>

\* the loops of the pipeline before they are started
LoaderIdle ==
    /\ rows = <<>> /\ row_number = 0 /\ inserted = 0 /\ transaction = <<>>
    /\ table_rows = <<>> /\ rolled_back = <<>> /\ loader_pc = "idle"
HalIdle ==
    /\ max_pages = 0 /\ cursor = "*" /\ all_docs = <<>> /\ page = 0
    /\ sent = <<>> /\ received = <<>> /\ hal_pc = "idle"
ScraperIdle ==
    /\ results = <<>> /\ scraped = 0 /\ failed_links = <<>> /\ saved = <<>>
    /\ scraper_pc = "idle"
PipelineIdle == LoaderIdle /\ HalIdle /\ ScraperIdle
pipeline_vars == <<loader_vars, hal_vars, scraper_vars>>

-----------------------------------------------------------------------------
(* Characters and strings.                                                 *)

UpperAlphabet == "ABCDEFGHIJKLMNOPQRSTUVWXYZ"
LowerAlphabet == "abcdefghijklmnopqrstuvwxyz"
DigitAlphabet == "0123456789"

At(s, i) == SubSeq(s, i, i)

CharsOf(s) == {At(s, i) : i \in 1..Len(s)}

UpperChars == CharsOf(UpperAlphabet)
LowerChars == CharsOf(LowerAlphabet)
DigitChars == CharsOf(DigitAlphabet)
\* \s of the re module and the characters str.split() / str.strip() treat as blank
SpaceChars == {" ", "\t", "\n", "\r", "\f"}
\* \w of the re module
WordChars == UpperChars \cup LowerChars \cup DigitChars \cup {"_"}

ToLower == [c \in UpperChars |->
              At(LowerAlphabet, CHOOSE i \in 1..Len(UpperAlphabet) : At(UpperAlphabet, i) = c)]

LowerChar(c) == IF c \in UpperChars THEN ToLower[c] ELSE c

\* str.lower(), by halves so that the evaluation depth stays logarithmic
RECURSIVE LowerRange(_, _, _)
LowerRange(s, lo, hi) ==
    IF lo > hi THEN ""
    ELSE IF lo = hi THEN LowerChar(At(s, lo))
    ELSE LET m == (lo + hi) \div 2
         IN  LowerRange(s, lo, m) \o LowerRange(s, m + 1, hi)

LowerStr(s) == LowerRange(s, 1, Len(s))

-----------------------------------------------------------------------------
(* The regular expressions of the source, as sequences of nodes, and their *)
(* matcher.  A node is one of                                              *)
(*   lit    a literal string                                               *)
(*   star   X* (greedy) for a character class X, plus X+ when min = 1      *)
(*   one    one character of a class                                       *)
(*   lazy   .*? under re.DOTALL                                            *)
(*   look   a lookahead (?=a1|a2|...) whose alternatives are node lists    *)
(*   eos    $                                                              *)
(*   gopen, gclose   the parentheses of the capturing group                *)
(* A class is a set of characters, negated ([^...]) or not.                *)

Lit(x)        == [k |-> "lit",  s |-> x,  cls |-> {}, neg |-> FALSE, min |-> 0, alts |-> <<>>]
Star(c, n)    == [k |-> "star", s |-> "", cls |-> c,  neg |-> n,     min |-> 0, alts |-> <<>>]
Plus(c, n)    == [k |-> "star", s |-> "", cls |-> c,  neg |-> n,     min |-> 1, alts |-> <<>>]
One(c, n)     == [k |-> "one",  s |-> "", cls |-> c,  neg |-> n,     min |-> 0, alts |-> <<>>]
Lazy          == [k |-> "lazy", s |-> "", cls |-> {}, neg |-> TRUE,  min |-> 0, alts |-> <<>>]
Look(a)       == [k |-> "look", s |-> "", cls |-> {}, neg |-> FALSE, min |-> 0, alts |-> a]
Eos           == [k |-> "eos",  s |-> "", cls |-> {}, neg |-> FALSE, min |-> 0, alts |-> <<>>]
GOpen         == [k |-> "gopen",  s |-> "", cls |-> {}, neg |-> FALSE, min |-> 0, alts |-> <<>>]
GClose        == [k |-> "gclose", s |-> "", cls |-> {}, neg |-> FALSE, min |-> 0, alts |-> <<>>]

NotGt    == Star({">"}, TRUE)      \* [^>]*
NotQuote == Star({"\""}, TRUE)     \* [^"]*
Digit    == One(DigitChars, FALSE) \* \d
Digits   == Plus(DigitChars, FALSE) \* \d+

InClass(c, n) == IF n.neg THEN c \notin n.cls ELSE c \in n.cls

\* the result of a failed match; a successful one is <<end, group start, group end>>
NoMatch == <<>>

\* the first index in lo..hi+1 whose character is outside the node's class
RECURSIVE RunStop(_, _, _, _)
RunStop(t, n, lo, hi) ==
    IF lo > hi THEN lo
    ELSE IF lo = hi THEN (IF InClass(At(t, lo), n) THEN lo + 1 ELSE lo)
    ELSE LET m == (lo + hi) \div 2
             l == RunStop(t, n, lo, m)
         IN  IF l <= m THEN l ELSE RunStop(t, n, m + 1, hi)

\* $ without re.MULTILINE: the end, or just before a final newline
AtEos(t, i) == i = Len(t) + 1 \/ (i = Len(t) /\ At(t, i) = "\n")

\* whether node n can match at index j as far as its first character tells
\* (a cheap necessary condition, used to skip places where n cannot match)
NodeCanBegin(t, n, j) ==
    CASE n.k = "lit" -> j <= Len(t) /\ At(t, j) = At(n.s, 1)
      [] n.k = "one" -> j <= Len(t) /\ InClass(At(t, j), n)
      [] n.k = "eos" -> AtEos(t, j)
      [] OTHER -> TRUE

CanBegin(t, p, k, j) ==
    IF k > Len(p) THEN TRUE
    ELSE IF p[k].k = "look"
         THEN \E a \in 1..Len(p[k].alts) : NodeCanBegin(t, p[k].alts[a][1], j)
    ELSE NodeCanBegin(t, p[k], j)

\* of the results <<j, end, gs, ge>> in a set, the one with the least / greatest j
LeastOf(rs)    == CHOOSE r \in rs : \A q \in rs : r[1] <= q[1]
GreatestOf(rs) == CHOOSE r \in rs : \A q \in rs : r[1] >= q[1]

RECURSIVE Match(_, _, _, _, _)

\* nodes k.. of p matched at every index of js where they can begin: the successful
\* results, each with its index in front
Continuations(t, p, k, js, g) ==
    {r \in {<<j>> \o Match(t, p, k, j, g) : j \in {j \in js : CanBegin(t, p, k, j)}} :
        Len(r) > 1}

\* nodes k.. of pattern p against t from index i.  A greedy repetition takes the
\* longest extent after which the rest matches, a lazy one the shortest; the
\* alternatives of a lookahead are tried in order.
Match(t, p, k, i, g) ==
    IF k > Len(p) THEN <<i, g[1], g[2]>>
    ELSE LET n == p[k] IN
      CASE n.k = "lit" ->
             IF i + Len(n.s) - 1 <= Len(t) /\ SubSeq(t, i, i + Len(n.s) - 1) = n.s
             THEN Match(t, p, k + 1, i + Len(n.s), g) ELSE NoMatch
        [] n.k = "one" ->
             IF i <= Len(t) /\ InClass(At(t, i), n)
             THEN Match(t, p, k + 1, i + 1, g) ELSE NoMatch
        [] n.k = "star" ->
             LET rs == Continuations(t, p, k + 1, (i + n.min)..RunStop(t, n, i, Len(t)), g)
             IN  IF rs = {} THEN NoMatch ELSE Tail(GreatestOf(rs))
        [] n.k = "lazy" ->
             LET rs == Continuations(t, p, k + 1, i..(Len(t) + 1), g)
             IN  IF rs = {} THEN NoMatch ELSE Tail(LeastOf(rs))
        [] n.k = "look" ->
             IF \E a \in 1..Len(n.alts) : Match(t, n.alts[a], 1, i, <<0, 0>>) # NoMatch
             THEN Match(t, p, k + 1, i, g) ELSE NoMatch
        [] n.k = "eos" ->
             IF AtEos(t, i) THEN Match(t, p, k + 1, i, g) ELSE NoMatch
        [] n.k = "gopen"  -> Match(t, p, k + 1, i, <<i, g[2]>>)
        [] n.k = "gclose" -> Match(t, p, k + 1, i, <<g[1], i>>)

\* re.IGNORECASE: the pattern's literals and the subject are compared in lower case
RECURSIVE FoldPattern(_)
FoldPattern(p) ==
    [j \in 1..Len(p) |->
        IF p[j].k = "lit" THEN [p[j] EXCEPT !.s = LowerStr(p[j].s)]
        ELSE IF p[j].k = "look"
             THEN [p[j] EXCEPT !.alts = [a \in 1..Len(p[j].alts) |-> FoldPattern(p[j].alts[a])]]
        ELSE p[j]]

\* the first of the alternative patterns ps[a..] (in order) that matches at index i
RECURSIVE MatchAlts(_, _, _, _)
MatchAlts(t, ps, a, i) ==
    IF a > Len(ps) THEN NoMatch
    ELSE LET r == Match(t, ps[a], 1, i, <<0, 0>>)
         IN  IF r # NoMatch THEN r ELSE MatchAlts(t, ps, a + 1, i)

\* every match <<start, end, group start, group end>> of the alternatives ps in t
\* that begins at an index of starts
Matches(t, ps, starts) ==
    {r \in {<<i>> \o MatchAlts(t, ps, 1, i) : i \in starts} : Len(r) > 1}

\* the indices of s whose character (folded when ignorecase) is in `first`
StartsIn(s, first, ignorecase) ==
    {i \in 1..Len(s) : (IF ignorecase THEN LowerChar(At(s, i)) ELSE At(s, i)) \in first}

\* The characters a match of pattern p can begin with (every pattern of the source
\* begins with a literal or with a repetition of a listed class followed by one).
RECURSIVE FirstChars(_, _)
FirstChars(p, k) ==
    IF k > Len(p) THEN {}
    ELSE CASE p[k].k = "lit"  -> {At(p[k].s, 1)}
           [] p[k].k = "one"  -> p[k].cls
           [] p[k].k = "star" -> IF p[k].min > 0 THEN p[k].cls
                                 ELSE p[k].cls \cup FirstChars(p, k + 1)
           [] OTHER -> FirstChars(p, k + 1)

FirstOfAny(ps) == UNION {FirstChars(ps[a], 1) : a \in 1..Len(ps)}

\* what re.findall / re.search hand back for a match r of subject s: the group's
\* text when the pattern has a group, else the whole match
Captured(s, p, r) ==
    IF \E j \in 1..Len(p) : p[j].k = "gopen"
    THEN SubSeq(s, r[3], r[4] - 1) ELSE SubSeq(s, r[1], r[2] - 1)

\* the subject and the patterns as the matcher sees them under the flags
Subject(s, ignorecase) == IF ignorecase THEN LowerStr(s) ELSE s
Compiled(ps, ignorecase) ==
    IF ignorecase THEN [a \in 1..Len(ps) |-> FoldPattern(ps[a])] ELSE ps

\* the matches of the set ms, whose starts lie in lo..hi, in the order of their starts
RECURSIVE InOrder(_, _, _)
InOrder(ms, lo, hi) ==
    IF ms = {} THEN <<>>
    ELSE IF lo = hi THEN <<CHOOSE r \in ms : TRUE>>
    ELSE LET m == (lo + hi) \div 2
         IN  InOrder({r \in ms : r[1] <= m}, lo, m) \o InOrder({r \in ms : r[1] > m}, m + 1, hi)

\* The scan of re.findall / re.sub / re.split over the matches sorted[lo..hi] of a
\* pattern, entered at index pos: a match that starts at or after pos is taken and
\* the scan goes on from its end, so the matches taken do not overlap (no pattern
\* of the source matches the empty string).  <<the matches taken, the index reached>>
RECURSIVE TakeRange(_, _, _, _)
TakeRange(sorted, lo, hi, pos) ==
    IF lo > hi THEN <<<<>>, pos>>
    ELSE IF lo = hi
         THEN IF sorted[lo][1] >= pos THEN <<<<sorted[lo]>>, sorted[lo][2]>> ELSE <<<<>>, pos>>
    ELSE LET m == (lo + hi) \div 2
             l == TakeRange(sorted, lo, m, pos)
             r == TakeRange(sorted, m + 1, hi, l[2])
         IN  <<l[1] \o r[1], r[2]>>

\* the non-overlapping matches among ms, scanning a subject of length n from its start
TakeAll(ms, n) ==
    LET sorted == InOrder(ms, 1, n + 1)
    IN  TakeRange(sorted, 1, Len(sorted), 1)[1]

\* re.findall(p, s) where t is Subject(s, .), p is compiled and starts holds the
\* indices of t where p can begin
FindAllAt(p, s, t, starts) ==
    LET taken == TakeAll(Matches(t, <<p>>, starts), Len(t))
    IN  [j \in 1..Len(taken) |-> Captured(s, p, taken[j])]

\* re.search(p, s), likewise: the captured text of the leftmost match in <<..>>, or <<>>
SearchFirstAt(p, s, t, starts) ==
    LET ms == Matches(t, <<p>>, starts)
    IN  IF ms = {} THEN <<>> ELSE <<Captured(s, p, LeastOf(ms))>>

\* the pieces of s between the matches taken[k..] from index pos on, each piece
\* followed by sep (re.sub), joined by halves
RECURSIVE JoinPieces(_, _, _, _, _)
JoinPieces(s, taken, sep, lo, hi) ==
    IF lo > hi THEN ""
    ELSE IF lo = hi
         THEN SubSeq(s, IF lo = 1 THEN 1 ELSE taken[lo - 1][2], taken[lo][1] - 1) \o sep
    ELSE LET m == (lo + hi) \div 2
         IN  JoinPieces(s, taken, sep, lo, m) \o JoinPieces(s, taken, sep, m + 1, hi)

\* re.sub(ps, repl, s): every non-overlapping match replaced; a subject in which no
\* match can begin is returned as it is
Sub(ps, repl, s, ignorecase) ==
    LET q == Compiled(ps, ignorecase)
        starts == StartsIn(s, FirstOfAny(q), ignorecase)
        taken == TakeAll(Matches(Subject(s, ignorecase), q, starts), Len(s))
    IN  IF starts = {} THEN s
        ELSE IF Len(taken) = 0 THEN s
        ELSE JoinPieces(s, taken, repl, 1, Len(taken))
             \o SubSeq(s, taken[Len(taken)][2], Len(s))

\* re.split(p, s): the pieces between the matches, the last one included
Split(p, s) ==
    LET taken == TakeAll(Matches(s, <<p>>, StartsIn(s, FirstChars(p, 1), FALSE)), Len(s))
    IN  [j \in 1..(Len(taken) + 1) |->
            SubSeq(s, IF j = 1 THEN 1 ELSE taken[j - 1][2],
                      IF j > Len(taken) THEN Len(s) ELSE taken[j][1] - 1)]

\* str.replace(old, new)
Replace(s, old, new) == Sub(<< <<Lit(old)>> >>, new, s, FALSE)

-----------------------------------------------------------------------------
(* Candidate generation.                                                   *)

\* <tag[^>]*attr="[^"]*marker[^"]*"[^>]*>.*?</tag>
Container(tag, attr, marker) ==
    <<Lit("<" \o tag), NotGt, Lit(attr \o "=\""), NotQuote, Lit(marker), NotQuote,
      Lit("\""), NotGt, Lit(">"), Lazy, Lit("</" \o tag \o ">")>>

\* <tag[^>]*attr="value"[^>]*>.*?</tag>
ContainerExact(tag, attr, value) ==
    <<Lit("<" \o tag), NotGt, Lit(attr \o "=\"" \o value \o "\""), NotGt, Lit(">"),
      Lazy, Lit("</" \o tag \o ">")>>

\* <h\d[^>]*>title</h\d>.*?(?=stops)
Heading(title, stops) ==
    <<Lit("<h"), Digit, NotGt, Lit(">" \o title \o "</h"), Digit, Lit(">"), Lazy,
      Look(stops)>>

\* <div class="[^"]*(?:article|paper|publication)[^"]*"
DivClassAlt(word) == <<Lit("<div class=\""), NotQuote, Lit(word), NotQuote, Lit("\"")>>

\* the list `patterns` of _extract_patterns, in its order
patterns == <<
    Container("div", "class", "abstract"),
    Container("section", "class", "abstract"),
    ContainerExact("div", "id", "Abs1"),
    <<Lit("<section"), NotGt, Lit("id=\"Abs"), Digits, Lit("\""), NotGt, Lit(">"),
      Lazy, Lit("</section>")>>,
    <<Lit("<div"), NotGt, Lit("class=\""), NotQuote, Lit("springer"), NotQuote,
      Lit("abstract"), NotQuote, Lit("\""), NotGt, Lit(">"), Lazy, Lit("</div>")>>,
    Container("div", "class", "abstract"),
    <<Lit("<section"), NotGt, Lit("data-testid=\"abstract"), NotQuote, Lit("\""),
      NotGt, Lit(">"), Lazy, Lit("</section>")>>,
    Container("div", "id", "abstract"),
    Container("section", "class", "abstractSection"),
    Container("div", "class", "paper-abstract"),
    Container("blockquote", "class", "abstract"),
    Container("span", "class", "abstract"),
    ContainerExact("div", "role", "doc-abstract"),
    ContainerExact("article", "id", "abstract"),
    ContainerExact("div", "id", "abstract"),
    ContainerExact("section", "id", "abstract"),
    Heading("Abstract",
            << <<Lit("<h"), Digit>>, <<Lit("<section")>>,
               DivClassAlt("article"), DivClassAlt("paper"), DivClassAlt("publication"),
               <<Lit("<footer")>>, <<Lit("<nav")>>, <<Eos>> >>),
    Heading("Summary",
            << <<Lit("<h"), Digit>>, <<Lit("<section")>>, <<Lit("<div")>>,
               <<Lit("<footer")>>, <<Eos>> >>),
    Container("div", "class", "note_content_value"),
    Container("div", "class", "abstract-text"),
    ContainerExact("div", "data-test-id", "paper-abstract")
>>

\* the patterns as re.IGNORECASE makes the matcher read them
compiled_patterns == [k \in 1..Len(patterns) |-> FoldPattern(patterns[k])]

\* the loop of _extract_patterns over patterns[k..]: re.findall with
\* re.IGNORECASE | re.DOTALL, every match appended (the patterns are fixed and
\* compile, so re.error is never raised).  t is the subject in lower case and
\* starts the places of its "<", where every pattern begins.
RECURSIVE extract_patterns_from(_, _, _, _)
extract_patterns_from(html, t, starts, k) ==
    IF k > Len(patterns) THEN <<>>
    ELSE FindAllAt(compiled_patterns[k], html, t, starts)
         \o extract_patterns_from(html, t, starts, k + 1)

TagStarts(html) == StartsIn(html, {"<"}, FALSE)

extract_patterns(html) ==
    extract_patterns_from(html, LowerStr(html), TagStarts(html), 1)

\* <meta[^>]*key="value"[^>]*content="([^"]*)"
MetaPattern(key, value) ==
    <<Lit("<meta"), NotGt, Lit(key \o "=\"" \o value \o "\""), NotGt, Lit("content=\""),
      GOpen, NotQuote, GClose, Lit("\"")>>

\* _extract_meta_tags: three re.search lookups with re.IGNORECASE, in this order
MetaSearch(key, value, html, t, starts) ==
    SearchFirstAt(FoldPattern(MetaPattern(key, value)), html, t, starts)

extract_meta_tags(html) ==
    LET t == LowerStr(html)
        starts == TagStarts(html)
    IN     MetaSearch("name", "description", html, t, starts)
        \o MetaSearch("property", "og:description", html, t, starts)
        \o MetaSearch("name", "twitter:description", html, t, starts)

-----------------------------------------------------------------------------
(* json.loads, as _extract_json_ld uses it.  A Python value is a record    *)
(* [type, val, items]: type is the name of its Python type, val the text   *)
(* of a str (for any other type, the JSON text it was read from), items    *)
(* the <<key, value>> pairs of a dict or the elements of a list.  String   *)
(* escapes are those of the modelled alphabet (no \uXXXX).                 *)

PyValue(t, v, it) == [type |-> t, val |-> v, items |-> it]
PyStr(v) == PyValue("str", v, <<>>)

\* a parse that failed (json.JSONDecodeError), and one that read a value up to index i
JsonError == [ok |-> FALSE, v |-> PyStr(""), i |-> 0]
JsonOk(v, i) == [ok |-> TRUE, v |-> v, i |-> i]

JsonSpace == {" ", "\t", "\n", "\r"}
JsonStop == {"\"", "\\", "\n", "\t", "\r", "\f"}
NotSpaceNode == Star(JsonSpace, FALSE)
StringRunNode == Star(JsonStop, TRUE)
DigitRunNode == Star(DigitChars, FALSE)

SkipWs(s, i) == RunStop(s, NotSpaceNode, i, Len(s))

HasAt(s, i, lit) == i + Len(lit) - 1 <= Len(s) /\ SubSeq(s, i, i + Len(lit) - 1) = lit

\* the character an escape \c stands for ("" when c begins no escape of the alphabet)
Unescape(c) ==
    CASE c = "\"" -> "\"" [] c = "\\" -> "\\" [] c = "/" -> "/"
      [] c = "n" -> "\n" [] c = "t" -> "\t" [] c = "r" -> "\r" [] c = "f" -> "\f"
      [] OTHER -> ""

\* the body of a string from index i (after the opening quote); acc is what was read
RECURSIVE ParseString(_, _, _)
ParseString(s, i, acc) ==
    LET j == RunStop(s, StringRunNode, i, Len(s))
        got == acc \o SubSeq(s, i, j - 1)
    IN  IF j > Len(s) THEN JsonError
        ELSE IF At(s, j) = "\"" THEN JsonOk(PyStr(got), j + 1)
        ELSE IF At(s, j) = "\\" /\ j < Len(s) /\ Unescape(At(s, j + 1)) # ""
             THEN ParseString(s, j + 2, got \o Unescape(At(s, j + 1)))
        ELSE JsonError

\* the end of a run of digits from index i
DigitsEnd(s, i) == RunStop(s, DigitRunNode, i, Len(s))

\* 0|[1-9]\d* from index d: the index after it (d when no digit is there)
IntEnd(s, d) == IF HasAt(s, d, "0") THEN d + 1 ELSE DigitsEnd(s, d)

\* (\.\d+)? from index e: the index after it
FracEnd(s, e) ==
    IF HasAt(s, e, ".") /\ DigitsEnd(s, e + 1) > e + 1 THEN DigitsEnd(s, e + 1) ELSE e

\* ([eE][-+]?\d+)? from index f: the index after it
ExpEnd(s, f) ==
    IF ~ (HasAt(s, f, "e") \/ HasAt(s, f, "E")) THEN f
    ELSE IF HasAt(s, f + 1, "-") \/ HasAt(s, f + 1, "+")
         THEN (IF DigitsEnd(s, f + 2) > f + 2 THEN DigitsEnd(s, f + 2) ELSE f)
    ELSE IF DigitsEnd(s, f + 1) > f + 1 THEN DigitsEnd(s, f + 1) ELSE f

\* the number read from index i, its digits from d to intEnd, ending before expEnd
NumberValue(s, i, d, intEnd, expEnd) ==
    IF intEnd = d THEN JsonError
    ELSE JsonOk(PyValue(IF expEnd > intEnd THEN "float" ELSE "int",
                        SubSeq(s, i, expEnd - 1), <<>>), expEnd)

\* -?(0|[1-9]\d*)(\.\d+)?([eE][-+]?\d+)?
NumberFrom(s, i, d) == NumberValue(s, i, d, IntEnd(s, d), ExpEnd(s, FracEnd(s, IntEnd(s, d))))
ParseNumber(s, i) == NumberFrom(s, i, IF HasAt(s, i, "-") THEN i + 1 ELSE i)

RECURSIVE ParseValue(_, _), ParseMembers(_, _, _, _), ParseElements(_, _, _, _)
RECURSIVE MemberValue(_, _, _, _), MemberEnd(_, _, _, _, _), MemberNext(_, _, _, _)
RECURSIVE ElementEnd(_, _, _, _), ElementNext(_, _, _, _)

\* after the value of a member or an element, at index e: the closing bracket,
\* or a comma and the next one; got holds what was read
MemberNext(s, start, got, e) ==
    IF HasAt(s, e, "}") THEN JsonOk(PyValue("dict", SubSeq(s, start, e), got), e + 1)
    ELSE IF HasAt(s, e, ",") THEN ParseMembers(s, start, SkipWs(s, e + 1), got)
    ELSE JsonError

ElementNext(s, start, got, e) ==
    IF HasAt(s, e, "]") THEN JsonOk(PyValue("list", SubSeq(s, start, e), got), e + 1)
    ELSE IF HasAt(s, e, ",") THEN ParseElements(s, start, e + 1, got)
    ELSE JsonError

\* the member with key k whose value was parsed as v
MemberEnd(s, start, acc, k, v) ==
    IF ~v.ok THEN JsonError
    ELSE MemberNext(s, start, Append(acc, <<k.v.val, v.v>>), SkipWs(s, v.i))

\* the value of the member whose key was parsed as k
MemberValue(s, start, acc, k) ==
    IF k.ok /\ HasAt(s, SkipWs(s, k.i), ":")
    THEN MemberEnd(s, start, acc, k, ParseValue(s, SkipWs(s, k.i) + 1))
    ELSE JsonError

\* the members of an object from index i (a key is due); acc holds the pairs read
ParseMembers(s, start, i, acc) ==
    IF HasAt(s, i, "\"") THEN MemberValue(s, start, acc, ParseString(s, i + 1, ""))
    ELSE JsonError

ElementEnd(s, start, acc, v) ==
    IF ~v.ok THEN JsonError
    ELSE ElementNext(s, start, Append(acc, v.v), SkipWs(s, v.i))

\* the elements of an array from index i (a value is due)
ParseElements(s, start, i, acc) == ElementEnd(s, start, acc, ParseValue(s, i))

\* the value that begins at index j (after blanks)
ValueAt(s, j) ==
    IF j > Len(s) THEN JsonError
    ELSE IF HasAt(s, j, "\"") THEN ParseString(s, j + 1, "")
    ELSE IF HasAt(s, j, "{") THEN
        IF HasAt(s, SkipWs(s, j + 1), "}")
        THEN JsonOk(PyValue("dict", SubSeq(s, j, SkipWs(s, j + 1)), <<>>), SkipWs(s, j + 1) + 1)
        ELSE ParseMembers(s, j, SkipWs(s, j + 1), <<>>)
    ELSE IF HasAt(s, j, "[") THEN
        IF HasAt(s, SkipWs(s, j + 1), "]")
        THEN JsonOk(PyValue("list", SubSeq(s, j, SkipWs(s, j + 1)), <<>>), SkipWs(s, j + 1) + 1)
        ELSE ParseElements(s, j, j + 1, <<>>)
    ELSE IF HasAt(s, j, "null") THEN JsonOk(PyValue("NoneType", "null", <<>>), j + 4)
    ELSE IF HasAt(s, j, "true") THEN JsonOk(PyValue("bool", "true", <<>>), j + 4)
    ELSE IF HasAt(s, j, "false") THEN JsonOk(PyValue("bool", "false", <<>>), j + 5)
    ELSE IF HasAt(s, j, "NaN") THEN JsonOk(PyValue("float", "NaN", <<>>), j + 3)
    ELSE IF HasAt(s, j, "Infinity") THEN JsonOk(PyValue("float", "Infinity", <<>>), j + 8)
    ELSE IF HasAt(s, j, "-Infinity") THEN JsonOk(PyValue("float", "-Infinity", <<>>), j + 9)
    ELSE ParseNumber(s, j)

ParseValue(s, i) == ValueAt(s, SkipWs(s, i))

\* r when it read the whole of s (but for trailing blanks), else a failure
WholeDocument(s, r) == IF r.ok /\ SkipWs(s, r.i) = Len(s) + 1 THEN r ELSE JsonError

\* json.loads(s): the value, or JsonError when s is not one JSON document
json_loads(s) == WholeDocument(s, ParseValue(s, 1))

\* `key in d` and d[key] for a dict value d (a repeated key holds its last value)
HasKey(d, key) == \E j \in 1..Len(d.items) : d.items[j][1] = key
GetKey(d, key) ==
    d.items[CHOOSE j \in 1..Len(d.items) :
                /\ d.items[j][1] = key
                /\ \A h \in (j + 1)..Len(d.items) : d.items[h][1] # key][2]

\* a candidate of the pool: the Python value without its items
Candidate(v) == [type |-> v.type, val |-> v.val]
StrCandidates(seq) == [j \in 1..Len(seq) |-> [type |-> "str", val |-> seq[j]]]

\* the appends of the loop body for a block that json.loads read as r
BlockCandidates(r) ==
    IF ~r.ok THEN <<>>                           \* except json.JSONDecodeError: continue
    ELSE IF r.v.type # "dict" THEN <<>>          \* isinstance(data, dict) fails
    ELSE (IF HasKey(r.v, "description")
          THEN <<Candidate(GetKey(r.v, "description"))>> ELSE <<>>)
      \o (IF HasKey(r.v, "abstract")
          THEN <<Candidate(GetKey(r.v, "abstract"))>> ELSE <<>>)
      \o (IF HasKey(r.v, "author") /\ GetKey(r.v, "author").type = "dict"
             /\ HasKey(GetKey(r.v, "author"), "description")
          THEN <<Candidate(GetKey(GetKey(r.v, "author"), "description"))>> ELSE <<>>)

\* the body of the loop of _extract_json_ld for one matched block
JsonLdBlock(match) == BlockCandidates(json_loads(match))

\* <script[^>]*type="application/ld\+json"[^>]*>(.*?)</script>
json_ld_pattern ==
    <<Lit("<script"), NotGt, Lit("type=\"application/ld+json\""), NotGt, Lit(">"),
      GOpen, Lazy, GClose, Lit("</script>")>>

RECURSIVE JsonLdBlocks(_, _)
JsonLdBlocks(matches, k) ==
    IF k > Len(matches) THEN <<>>
    ELSE JsonLdBlock(matches[k]) \o JsonLdBlocks(matches, k + 1)

\* _extract_json_ld: re.findall with re.DOTALL only, then the loop over the blocks
extract_json_ld(html) ==
    JsonLdBlocks(FindAllAt(json_ld_pattern, html, html, TagStarts(html)), 1)

-----------------------------------------------------------------------------
(* Normalization: _clean_html.                                             *)

\* the characters of the entity table outside ASCII, each written as an ASCII
\* character that no input and no pattern of the model uses otherwise
EmDash   == "~"    \* U+2014
EnDash   == "^"    \* U+2013
Ellipsis == "$"    \* U+2026
Degree   == "|"    \* U+00B0
CopySign == "@"    \* U+00A9

\* html_entities, in the dict's insertion order
html_entities == <<
    <<"&nbsp;", " ">>, <<"&amp;", "&">>, <<"&lt;", "<">>, <<"&gt;", ">">>,
    <<"&quot;", "\"">>, <<"&#39;", "'">>, <<"&apos;", "'">>, <<"&mdash;", EmDash>>,
    <<"&ndash;", EnDash>>, <<"&ldquo;", "\"">>, <<"&rdquo;", "\"">>, <<"&lsquo;", "'">>,
    <<"&rsquo;", "'">>, <<"&hellip;", Ellipsis>>, <<"&deg;", Degree>>, <<"&copy;", CopySign>> >>

\* for entity, char in html_entities.items(): text = text.replace(entity, char)
\* (the text after the first k entities of the table have been replaced)
RECURSIVE DecodeEntities(_, _)
DecodeEntities(s, k) ==
    IF k = 0 THEN s
    ELSE Replace(DecodeEntities(s, k - 1), html_entities[k][1], html_entities[k][2])

\* the whole loop; every entity begins with "&", so a text without one is unchanged
DecodeAll(s) ==
    IF \A i \in 1..Len(s) : At(s, i) # "&" THEN s ELSE DecodeEntities(s, Len(html_entities))

\* <tag[^>]*>.*?</tag>
Block(tag) == <<Lit("<" \o tag), NotGt, Lit(">"), Lazy, Lit("</" \o tag \o ">")>>

SpaceRun == Star(SpaceChars, FALSE)      \* \s*
AnyButNewline == Star({"\n"}, TRUE)      \* .* without re.DOTALL

\* the text with its ends as they are
keep_ends(s) == s

\* str.strip()
RECURSIVE LastNonSpace(_, _, _)
LastNonSpace(s, lo, hi) ==
    IF lo > hi THEN hi
    ELSE IF lo = hi THEN (IF At(s, lo) \in SpaceChars THEN lo - 1 ELSE lo)
    ELSE LET m == (lo + hi) \div 2
             r == LastNonSpace(s, m + 1, hi)
         IN  IF r > m THEN r ELSE LastNonSpace(s, lo, m)

Strip(s) == SubSeq(s, RunStop(s, SpaceRun, 1, Len(s)), LastNonSpace(s, 1, Len(s)))

RemoveScripts(s)  == Sub(<<Block("script")>>, "", s, TRUE)
RemoveStyles(s)   == Sub(<<Block("style")>>, "", s, TRUE)
\* <(noscript|iframe|embed)[^>]*>.*?</\1>
RemoveBloat(s)    == Sub(<<Block("noscript"), Block("iframe"), Block("embed")>>, "", s, TRUE)
\* <!--.*?-->
RemoveComments(s) == Sub(<< <<Lit("<!--"), Lazy, Lit("-->")>> >>, "", s, FALSE)
\* <[^>]+>
RemoveTags(s)     == Sub(<< <<Lit("<"), Plus({">"}, TRUE), Lit(">")>> >>, "", s, FALSE)
\* &#?\w+;
RemoveEntities(s) == Sub(<< <<Lit("&#"), Plus(WordChars, FALSE), Lit(";")>>,
                            <<Lit("&"), Plus(WordChars, FALSE), Lit(";")>> >>, "", s, FALSE)
\* \s+ -> ' '
CollapseSpace(s)  == Sub(<< <<Plus(SpaceChars, FALSE)>> >>, " ", s, FALSE)
\* \s*Show More.*$
RemoveShowMore(s) == Sub(<< <<SpaceRun, Lit("Show More"), AnyButNewline, Eos>> >>, "", s, TRUE)
\* \s*\.\.\.$
RemoveDots(s)     == Sub(<< <<SpaceRun, Lit("..."), Eos>> >>, "", s, FALSE)

\* the text as it was captured, markup and entities included
keep_markup(s) == s

\* _clean_html for a str argument
clean_html(s) ==
    RemoveDots(RemoveShowMore(Strip(CollapseSpace(RemoveEntities(DecodeAll(
        RemoveTags(RemoveComments(RemoveBloat(RemoveStyles(RemoveScripts(s)))))))))))

-----------------------------------------------------------------------------
(* Quality filter: _filter_quality_abstracts.                              *)

\* len(s.split()): the number of maximal runs of non-blank characters
WordCount(s) ==
    Cardinality({i \in 1..Len(s) :
                    At(s, i) \notin SpaceChars /\ (i = 1 \/ At(s, i - 1) \in SpaceChars)})

\* re.split(r'[.!?]+', s)
SentenceSplit(s) == Split(<<Plus({".", "!", "?"}, FALSE)>>, s)

\* len([s for s in sentences if len(s.split()) > 3])
LongSentences(s) ==
    LET sentences == SentenceSplit(s)
    IN  Cardinality({j \in 1..Len(sentences) : WordCount(sentences[j]) > 3})

\* sum(1 for c in cleaned if c.isupper())
UpperCount(s) == Cardinality({i \in 1..Len(s) : At(s, i) \in UpperChars})

\* the checks with the lower word bound exclusive and the uppercase check inclusive
PassesChecksStrict(cleaned, minlen, maxlen) ==
    /\ Len(cleaned) >= minlen /\ Len(cleaned) <= maxlen
    /\ WordCount(cleaned) > 10 /\ WordCount(cleaned) <= 1000
    /\ LongSentences(cleaned) >= 2
    /\ 10 * UpperCount(cleaned) < 4 * Len(cleaned)

\* no check at all
PassesAlways(cleaned, minlen, maxlen) == TRUE

\* the checks without the one on capitals
PassesChecksAnyCase(cleaned, minlen, maxlen) ==
    /\ Len(cleaned) >= minlen /\ Len(cleaned) <= maxlen
    /\ WordCount(cleaned) >= 10 /\ WordCount(cleaned) <= 1000
    /\ LongSentences(cleaned) >= 2

\* the four checks of the loop body on a cleaned text, in the code's order; TRUE
\* when no `continue` is taken.  uppercase_ratio > 0.4 is compared in integers:
\* for every length up to 5000 the float comparison gives the same answer
PassesChecks(cleaned, minlen, maxlen) ==
    IF Len(cleaned) < minlen \/ Len(cleaned) > maxlen THEN FALSE
    ELSE IF WordCount(cleaned) < 10 \/ WordCount(cleaned) > 1000 THEN FALSE
    ELSE IF LongSentences(cleaned) < 2 THEN FALSE
    ELSE IF Len(cleaned) > 0 /\ 10 * UpperCount(cleaned) > 4 * Len(cleaned) THEN FALSE
    ELSE TRUE

\* what a private method hands back: the value, or the exception it ended with
Returned(v) == [raised |-> "", value |-> v]
Raised(e)   == [raised |-> e,  value |-> <<>>]

\* the loop of _filter_quality_abstracts over abstracts[k..]; _clean_html applies
\* re.sub to its argument, which raises TypeError unless the argument is a str
RECURSIVE FilterFrom(_, _, _, _)
FilterFrom(cands, k, minlen, maxlen) ==
    IF k > Len(cands) THEN Returned(<<>>)
    ELSE IF cands[k].type # "str" THEN Raised("TypeError")
    ELSE LET cleaned == clean_html(cands[k].val)
             rest == FilterFrom(cands, k + 1, minlen, maxlen)
         IN  IF rest.raised # "" THEN rest
             ELSE IF PassesChecks(cleaned, minlen, maxlen)
                  THEN Returned(<<cleaned>> \o rest.value)
                  ELSE rest

filter_quality_abstracts(cands, minlen, maxlen) == FilterFrom(cands, 1, minlen, maxlen)

-----------------------------------------------------------------------------
(* Deduplication and selection.                                            *)

AbsDiff(a, b) == IF a >= b THEN a - b ELSE b - a

\* the loop with a window that takes a difference of exactly 50 as near
RECURSIVE DedupInclusive(_, _, _, _)
DedupInclusive(texts, k, unique, seen_lengths) ==
    IF k > Len(texts) THEN unique
    ELSE IF \E seen_len \in seen_lengths : AbsDiff(Len(texts[k]), seen_len) <= 50
         THEN DedupInclusive(texts, k + 1, unique, seen_lengths)
    ELSE DedupInclusive(texts, k + 1, Append(unique, texts[k]), seen_lengths \cup {Len(texts[k])})

\* the loop of _remove_duplicates over abstracts[k..], with its two locals
RECURSIVE DedupFrom(_, _, _, _)
DedupFrom(texts, k, unique, seen_lengths) ==
    IF k > Len(texts) THEN unique
    ELSE IF \E seen_len \in seen_lengths : AbsDiff(Len(texts[k]), seen_len) < 50
         THEN DedupFrom(texts, k + 1, unique, seen_lengths)
    ELSE IF \E j \in 1..Len(unique) : unique[j] = texts[k]
         THEN DedupFrom(texts, k + 1, unique, seen_lengths)
    ELSE DedupFrom(texts, k + 1, Append(unique, texts[k]), seen_lengths \cup {Len(texts[k])})

\* the loop with seen_lengths.add left out
RECURSIVE ReasonsWithoutLengths(_, _, _, _)
ReasonsWithoutLengths(texts, k, unique, seen_lengths) ==
    IF k > Len(texts) THEN <<>>
    ELSE IF \E seen_len \in seen_lengths : AbsDiff(Len(texts[k]), seen_len) < 50
         THEN <<"near">> \o ReasonsWithoutLengths(texts, k + 1, unique, seen_lengths)
    ELSE IF \E j \in 1..Len(unique) : unique[j] = texts[k]
         THEN <<"exact">> \o ReasonsWithoutLengths(texts, k + 1, unique, seen_lengths)
    ELSE <<"kept">> \o ReasonsWithoutLengths(texts, k + 1, Append(unique, texts[k]), seen_lengths)

\* the same loop, giving for each of abstracts[k..] the branch it took: "near" (the
\* continue of the length test), "exact" (the continue of the `in` test) or "kept"
RECURSIVE Reasons(_, _, _, _)
Reasons(texts, k, unique, seen_lengths) ==
    IF k > Len(texts) THEN <<>>
    ELSE IF \E seen_len \in seen_lengths : AbsDiff(Len(texts[k]), seen_len) < 50
         THEN <<"near">> \o Reasons(texts, k + 1, unique, seen_lengths)
    ELSE IF \E j \in 1..Len(unique) : unique[j] = texts[k]
         THEN <<"exact">> \o Reasons(texts, k + 1, unique, seen_lengths)
    ELSE <<"kept">> \o Reasons(texts, k + 1, Append(unique, texts[k]),
                               seen_lengths \cup {Len(texts[k])})

\* only exact duplicates removed
RECURSIVE ExactOnlyFrom(_, _, _)
ExactOnlyFrom(texts, k, unique) ==
    IF k > Len(texts) THEN unique
    ELSE IF \E j \in 1..Len(unique) : unique[j] = texts[k]
         THEN ExactOnlyFrom(texts, k + 1, unique)
    ELSE ExactOnlyFrom(texts, k + 1, Append(unique, texts[k]))

remove_exact_duplicates(texts) == ExactOnlyFrom(texts, 1, <<>>)

\* every text kept
keep_all(texts) == texts

remove_duplicates(texts) == DedupFrom(texts, 1, <<>>, {})

\* max(seq, key=len) over seq[k..] with the best so far: a later element replaces
\* it only when strictly longer
RECURSIVE MaxFrom(_, _, _)
MaxFrom(seq, k, best) ==
    IF k > Len(seq) THEN best
    ELSE MaxFrom(seq, k + 1, IF Len(seq[k]) > Len(best) THEN seq[k] ELSE best)

\* the first element, whatever its length
FirstOf(seq) == seq[1]

MaxByLen(seq) == MaxFrom(seq, 2, seq[1])

\* list.sort(key=len, reverse=True): stable, so equal lengths keep their order;
\* by insertion of seq[k] into the sorted seq[1..k-1]
InsertByLen(sorted, x) ==
    LET after == {j \in 1..Len(sorted) : Len(sorted[j]) >= Len(x)}
        n == Cardinality(after)
    IN  SubSeq(sorted, 1, n) \o <<x>> \o SubSeq(sorted, n + 1, Len(sorted))

\* the list left in the order deduplication gave it
Unsorted(seq, k) == SubSeq(seq, 1, k)

RECURSIVE SortByLenDesc(_, _)
SortByLenDesc(seq, k) ==
    IF k = 0 THEN <<>> ELSE InsertByLen(SortByLenDesc(seq, k - 1), seq[k])

-----------------------------------------------------------------------------
(* The public methods.                                                     *)

\* what a public call hands back: kind is the Python type of the value ("None",
\* "str", "list", "dict") or "exception" when the call raised; a dict is the
\* sequence of its <<key, value>> pairs in insertion order
PyNone      == [kind |-> "None", text |-> "", list |-> <<>>, dict |-> <<>>]
PyText(t)   == [kind |-> "str",  text |-> t,  list |-> <<>>, dict |-> <<>>]
PyList(l)   == [kind |-> "list", text |-> "", list |-> l,    dict |-> <<>>]
PyDict(d)   == [kind |-> "dict", text |-> "", list |-> <<>>, dict |-> d]
PyException == [kind |-> "exception", text |-> "", list |-> <<>>, dict |-> <<>>]

\* the locals of a call and its outcome
Outcome(all, filt, uniq, res, exc) ==
    [all_abstracts |-> all, filtered |-> filt, unique_abstracts |-> uniq,
     result |-> res, raised |-> exc]

\* first strategy that finds anything wins
FirstStrategyPool(html) ==
    IF Len(extract_patterns(html)) > 0 THEN StrCandidates(extract_patterns(html))
    ELSE IF Len(extract_json_ld(html)) > 0 THEN extract_json_ld(html)
    ELSE StrCandidates(extract_meta_tags(html))

\* all_abstracts after the three extend() calls
CandidatePool(html) ==
       StrCandidates(extract_patterns(html))
    \o extract_json_ld(html)
    \o StrCandidates(extract_meta_tags(html))

\* extract from `if unique_abstracts:` on
Selection(all, filt, uniq) ==
    IF Len(uniq) > 0 THEN Outcome(all, filt, uniq, PyText(MaxByLen(uniq)), "")
    ELSE Outcome(all, filt, uniq, PyNone, "")

\* extract once the filter handed back f (or raised)
AfterFilter(all, f) ==
    IF f.raised # "" THEN Outcome(all, <<>>, <<>>, PyException, f.raised)
    ELSE IF Len(f.value) = 0 THEN Outcome(all, f.value, <<>>, PyNone, "")
    ELSE Selection(all, f.value, remove_duplicates(f.value))

\* extract once the three strategies filled all_abstracts
ExtractFrom(all, minlen, maxlen) ==
    IF Len(all) = 0 THEN Outcome(all, <<>>, <<>>, PyNone, "")
    ELSE AfterFilter(all, filter_quality_abstracts(all, minlen, maxlen))

\* AbstractExtractor.extract
extract(html, minlen, maxlen) == ExtractFrom(CandidatePool(html), minlen, maxlen)

\* the sort with the shortest text first
SortedShortestFirst(all, filt, uniq) ==
    Outcome(all, filt, uniq,
            PyList([j \in 1..Len(uniq) |-> SortByLenDesc(uniq, Len(uniq))[Len(uniq) + 1 - j]]), "")

\* extract_all from the sort on (unique_abstracts is recorded as _remove_duplicates
\* returned it; the call then sorts that list in place and returns it)
Sorted(all, filt, uniq) ==
    Outcome(all, filt, uniq, PyList(SortByLenDesc(uniq, Len(uniq))), "")

\* extract_all once the filter handed back f (or raised)
AllAfterFilter(all, f) ==
    IF f.raised # "" THEN Outcome(all, <<>>, <<>>, PyException, f.raised)
    ELSE Sorted(all, f.value, remove_duplicates(f.value))

\* extract_all once the three strategies filled all_abstracts
ExtractAllFrom(all, minlen, maxlen) ==
    IF Len(all) = 0 THEN Outcome(all, <<>>, <<>>, PyList(<<>>), "")
    ELSE AllAfterFilter(all, filter_quality_abstracts(all, minlen, maxlen))

\* AbstractExtractor.extract_all
extract_all(html, minlen, maxlen) == ExtractAllFrom(CandidatePool(html), minlen, maxlen)

\* bool(re.search(r'\d', s))
HasDigit(s) == \E i \in 1..Len(s) : At(s, i) \in DigitChars

\* the record with the word count taken as the character count
MetadataByChars(o) ==
    IF o.result.kind # "str" THEN o
    ELSE [o EXCEPT !.result = PyDict(<<
             <<"abstract", o.result.text>>,
             <<"length", Len(o.result.text)>>,
             <<"word_count", Len(o.result.text)>>,
             <<"sentence_count", Len(SentenceSplit(o.result.text))>>,
             <<"has_numbers", HasDigit(o.result.text)>> >>)]

\* extract_with_metadata once self.extract handed back (or raised) as o records
Metadata(o) ==
    IF o.result.kind # "str" THEN o                                \* raised, or None
    ELSE IF o.result.text = "" THEN [o EXCEPT !.result = PyNone]   \* `not abstract`
    ELSE [o EXCEPT !.result = PyDict(<<
             <<"abstract", o.result.text>>,
             <<"length", Len(o.result.text)>>,
             <<"word_count", WordCount(o.result.text)>>,
             <<"sentence_count", Len(SentenceSplit(o.result.text))>>,
             <<"has_numbers", HasDigit(o.result.text)>> >>)]

\* AbstractExtractor.extract_with_metadata
extract_with_metadata(html, minlen, maxlen) == Metadata(extract(html, minlen, maxlen))

-----------------------------------------------------------------------------
(* The inputs: HTML documents put together from a structural part, a       *)
(* structured-data part and a meta-tag part, and the configurations.       *)

RECURSIVE Rep(_, _)
Rep(c, n) ==
    IF n = 0 THEN "" ELSE IF n = 1 THEN c ELSE Rep(c, n \div 2) \o Rep(c, n - n \div 2)

\* ten words in two sentences, 50 characters
Prose == "one two three four. five six seven eight nine ten."
\* Prose and one more word: 50 + n characters (n >= 2)
Padded(n) == Prose \o " " \o Rep("x", n - 1)

JsonLd(json) == "<script type=\"application/ld+json\">" \o json \o "</script>"

StructuralParts == {
    "",
    "<div class=\"abstract\">" \o Padded(50) \o "</div>",
    "<section id=\"Abs1\">\n <p>One  two three four.</p>\n <p>Five six seven eight nine ten &amp; more.</p></section>",
    "<h2>Abstract</h2><p>" \o Padded(120) \o "</p><footer>Contact</footer>",
    "<div class=\"abstract\">" \o Prose \o "</div><div id=\"abstract\"><b>Note.</b> " \o Padded(30) \o "</div>" }

StructuredParts == {
    "",
    JsonLd("{\"description\": \"" \o Padded(150) \o "\"}"),
    JsonLd("{\"description\": 5}"),
    JsonLd("{not json}") \o JsonLd("[\"" \o Padded(150) \o "\"]")
        \o JsonLd("{\"name\": \"n\", \"abstract\": \"" \o Padded(99) \o "\"}") }

MetaParts == {
    "",
    "<meta name=\"description\" content=\"" \o Prose \o "\"><meta property=\"og:description\" content=\"" \o Padded(200) \o "\">",
    "<meta name=\"description\" content=\"Short summary.\"><meta name=\"twitter:description\" content=\"" \o Padded(100) \o "\">" }

\* a heading of 80 characters in capitals, in four sentences and in none, and a page
\* whose only candidate is that heading
Heading4Sentences == Rep("WE TEST IT ALL NOW. ", 3) \o "WE TEST IT ALL TODAY"
Heading4Plain     == Rep("WE TEST IT ALL NOWS ", 3) \o "WE TEST IT ALL TODAY"
Scenario4Page(heading) ==
    "<html><body><section class=\"abstract\"><h2>" \o heading \o "</h2></section></body></html>"
Scenario4Docs == {Scenario4Page(Heading4Sentences), Scenario4Page(Heading4Plain)}

Docs == {s \o j \o m : s \in StructuralParts, j \in StructuredParts, m \in MetaParts}
            \cup Scenario4Docs

\* <<min_length, max_length, verbose>>: the defaults of __init__ and a narrower window
Configs == {<<50, 5000, FALSE>>, <<60, 160, TRUE>>}

MaxCalls == 1

Init ==
    /\ PipelineIdle
    /\ \E c \in Configs : min_length = c[1] /\ max_length = c[2] /\ verbose = c[3]
    /\ html_content \in Docs
    /\ abstracts = <<>>
    /\ text = ""
    /\ op = "none"
    /\ all_abstracts = <<>>
    /\ filtered = <<>>
    /\ unique_abstracts = <<>>
    /\ result = PyNone
    /\ raised = ""
    /\ calls = 0

\* a public call `name` on the extractor with outcome o
Call(name, o) ==
    /\ calls < MaxCalls
    /\ op' = name
    /\ all_abstracts' = o.all_abstracts
    /\ filtered' = o.filtered
    /\ unique_abstracts' = o.unique_abstracts
    /\ result' = o.result
    /\ raised' = o.raised
    /\ calls' = calls + 1
    /\ UNCHANGED pipeline_vars
    /\ UNCHANGED <<min_length, max_length, verbose, html_content, abstracts, text>>

Extract == Call("extract", extract(html_content, min_length, max_length))

ExtractAll == Call("extract_all", extract_all(html_content, min_length, max_length))

ExtractWithMetadata ==
    Call("extract_with_metadata", extract_with_metadata(html_content, min_length, max_length))

Next == Extract \/ ExtractAll \/ ExtractWithMetadata

Spec == Init /\ [][Next]_vars

-----------------------------------------------------------------------------
(* The private methods on their own: each is applied to an input chosen in  *)
(* the initial state.                                                       *)

\* every variable but the inputs, before any call
Idle ==
    /\ op = "none"
    /\ all_abstracts = <<>>
    /\ filtered = <<>>
    /\ unique_abstracts = <<>>
    /\ result = PyNone
    /\ raised = ""
    /\ calls = 0

\* raw strings for _clean_html: markup, entities (also doubly encoded), blanks,
\* trailing dots and the "Show More" marker around a few bodies
RawHeads  == {"", "<b>", "&lt;b&gt;", "  ", "<!-- c -->", "&amp;"}
RawBodies == {"x", "a b", "Tom &amp; Jerry", "a......", "x Show More y", "a&nbsp;b", "lt; 1 &amp;lt; 2",
              "<script>evil()</script>ok", "<script>evil()", "a \n\t b"}
RawTails  == {"", "</b>", " ...", "&hellip;"}
RawTexts  == {h \o b \o e : h \in RawHeads, b \in RawBodies, e \in RawTails}

InitClean ==
    /\ PipelineIdle
    /\ min_length = 50 /\ max_length = 5000 /\ verbose = FALSE
    /\ html_content = ""
    /\ abstracts = <<>>
    /\ text \in RawTexts
    /\ Idle

\* self._clean_html(text)
CleanHtml ==
    /\ calls < MaxCalls
    /\ op' = "_clean_html"
    /\ result' = PyText(clean_html(text))
    /\ calls' = calls + 1
    /\ UNCHANGED pipeline_vars
    /\ UNCHANGED <<min_length, max_length, verbose, html_content, abstracts, text,
                   all_abstracts, filtered, unique_abstracts, raised>>

\* the entity step of _clean_html: the replace loop over html_entities, then
\* re.sub(r'&#?\w+;', '', text)
EntityStep ==
    /\ calls < MaxCalls
    /\ op' = "entities"
    /\ result' = PyText(RemoveEntities(DecodeAll(text)))
    /\ calls' = calls + 1
    /\ UNCHANGED pipeline_vars
    /\ UNCHANGED <<min_length, max_length, verbose, html_content, abstracts, text,
                   all_abstracts, filtered, unique_abstracts, raised>>

\* the last step of _clean_html, on a text whose whitespace is already collapsed and
\* stripped: the "Show More" rule, then the "..." rule
SuffixStep ==
    /\ calls < MaxCalls
    /\ text = Strip(CollapseSpace(text))
    /\ op' = "suffix"
    /\ result' = PyText(RemoveDots(RemoveShowMore(text)))
    /\ calls' = calls + 1
    /\ UNCHANGED pipeline_vars
    /\ UNCHANGED <<min_length, max_length, verbose, html_content, abstracts, text,
                   all_abstracts, filtered, unique_abstracts, raised>>

NextClean == CleanHtml \/ EntityStep \/ SuffixStep

SpecClean == InitClean /\ [][NextClean]_vars

\* Prose with twenty (resp. twenty-one) of its fifty characters in upper case
ProseUpper20 == "ONE TWO THREE FOUR. FIVE Six seven eight nine ten."
ProseUpper21 == "ONE TWO THREE FOUR. FIVE SIx seven eight nine ten."
\* a thousand words in two sentences, and one word more
Words1000 == Rep("a ", 499) \o "a. " \o Rep("b ", 499) \o "b."
Words1001 == Words1000 \o " c"

\* candidates at and around the edges of each check of the filter
FilterTexts == {
    Prose,
    SubSeq(Prose, 2, 50),
    Padded(10),
    Padded(110),
    Padded(111),
    "onexxxxxxxxxxxxxxxxxxxxxxxxxxxxxxxxxxx two three four. five six seven eight nine.",
    "one two three four five six seven eight nine ten eleven twelve thirteen fourteen.",
    "one two three. four five six. seven eight nine ten eleven twelve thirteen fourteen.",
    ProseUpper20,
    ProseUpper21,
    "<p>" \o Prose \o "</p>  ",
    "<b>Note</b> &amp; " \o Padded(60) \o " ...",
    Words1000,
    Words1001 }

\* the second candidate of a two-element input
SecondTexts == {Prose, Padded(111), "<p>" \o ProseUpper21 \o "</p>"}

InitFilter ==
    /\ PipelineIdle
    /\ \E c \in Configs : min_length = c[1] /\ max_length = c[2] /\ verbose = c[3]
    /\ html_content = ""
    /\ text = ""
    /\ abstracts \in {<<t>> : t \in FilterTexts} \cup {<<t, u>> : t \in FilterTexts, u \in SecondTexts}
    /\ Idle

\* self._filter_quality_abstracts(abstracts)
FilterQuality ==
    /\ calls < MaxCalls
    /\ op' = "_filter_quality_abstracts"
    /\ filtered' = filter_quality_abstracts(StrCandidates(abstracts), min_length, max_length).value
    /\ calls' = calls + 1
    /\ UNCHANGED pipeline_vars
    /\ UNCHANGED <<min_length, max_length, verbose, html_content, abstracts, text,
                   all_abstracts, unique_abstracts, result, raised>>

SpecFilter == InitFilter /\ [][FilterQuality]_vars

\* texts for _remove_duplicates: lengths 100, 149, 150 and 200, two different
\* texts of length 100
DedupTexts == {Rep("a", 100), Rep("b", 100), Rep("a", 149), Rep("a", 150), Rep("a", 200)}
MaxTexts == 3

RECURSIVE SeqsUpTo(_, _)
SeqsUpTo(S, n) ==
    IF n = 0 THEN {<<>>}
    ELSE SeqsUpTo(S, n - 1) \cup {Append(q, x) : q \in {q \in SeqsUpTo(S, n - 1) : Len(q) = n - 1}, x \in S}

InitDedup ==
    /\ PipelineIdle
    /\ min_length = 50 /\ max_length = 5000 /\ verbose = FALSE
    /\ html_content = ""
    /\ text = ""
    /\ abstracts \in SeqsUpTo(DedupTexts, MaxTexts)
    /\ Idle

\* self._remove_duplicates(abstracts)
RemoveDuplicates ==
    /\ calls < MaxCalls
    /\ op' = "_remove_duplicates"
    /\ unique_abstracts' = remove_duplicates(abstracts)
    /\ calls' = calls + 1
    /\ UNCHANGED pipeline_vars
    /\ UNCHANGED <<min_length, max_length, verbose, html_content, abstracts, text,
                   all_abstracts, filtered, result, raised>>

SpecDedup == InitDedup /\ [][RemoveDuplicates]_vars

\* containers for _extract_patterns: a tag with its marker attribute alone, before
\* and after another attribute, around a content on one line, on several lines, with
\* nested children and with a nested child of the container's own tag
MarkedTags == {<<"div", "class=\"abstract\"">>, <<"section", "id=\"Abs1\"">>,
               <<"div", "id=\"abstract\"">>, <<"blockquote", "class=\"abstract\"">>}
Openings(tag, marker) ==
    {"<" \o tag \o " " \o marker \o ">",
     "<" \o tag \o " " \o marker \o " lang=\"en\">",
     "<" \o tag \o " lang=\"en\" " \o marker \o ">"}
Contents(tag) ==
    {"One two three.",
     "\n  One two\n  three.\n",
     "<p>One <b>two</b></p>\n<p>three.</p>",
     "<" \o tag \o ">One two</" \o tag \o "> three."}
Containers ==
    UNION {{o \o c \o "</" \o m[1] \o ">" : o \in Openings(m[1], m[2]), c \in Contents(m[1])}
           : m \in MarkedTags}
\* what stands before and after the container in the page
Surroundings == {<<"", "">>, <<"<html><body><h1>T</h1>", "<p>after</p></body></html>">>,
                 <<"<p>before</p>\n", "">>}

\* text is the container, html_content the page around it
InitPatterns ==
    /\ PipelineIdle
    /\ min_length = 50 /\ max_length = 5000 /\ verbose = FALSE
    /\ \E c \in Containers, w \in Surroundings :
          text = c /\ html_content = w[1] \o c \o w[2]
    /\ abstracts = <<>>
    /\ Idle

\* self._extract_patterns(html_content)
ExtractPatterns ==
    /\ calls < MaxCalls
    /\ op' = "_extract_patterns"
    /\ abstracts' = extract_patterns(html_content)
    /\ calls' = calls + 1
    /\ UNCHANGED pipeline_vars
    /\ UNCHANGED <<min_length, max_length, verbose, html_content, text,
                   all_abstracts, filtered, unique_abstracts, result, raised>>

SpecPatterns == InitPatterns /\ [][ExtractPatterns]_vars

-----------------------------------------------------------------------------
(* Several calls on one extractor, each on a document of its own.           *)

\* five words, one sentence
Sentence == "we test it all now. "

\* 120 words of prose in 24 sentences, and a page that wraps it (with an inline
\* tag and an entity) in a div matched by two rules
Scenario1Text == Rep(Sentence, 23) \o "Tom & Jerry won 3."
Scenario1Doc ==
    "<html><body><h1>Title</h1><div class=\"abstract\"><p>"
    \o Rep(Sentence, 23) \o "<b>Tom</b> &amp; Jerry won 3.</p></div></body></html>"

\* a page whose only candidate is a meta description of 15 characters
Scenario2Doc ==
    "<html><head><meta name=\"description\" content=\"A short summary\"></head>"
    \o "<body><p>Hello.</p></body></html>"

\* one abstract, in a JSON-LD description and in <section id="Abs1"> (there with
\* extra whitespace)
Scenario3Text == Rep(Sentence, 3) \o "we test it all now."
Scenario3Doc ==
    JsonLd("{\"@type\": \"ScholarlyArticle\", \"description\": \"" \o Scenario3Text \o "\"}")
    \o "<section id=\"Abs1\">\n  <p>" \o Rep("we  test it\n all now. ", 4)
    \o "</p>\n</section>"

\* a page whose JSON-LD description is a number
NumberDoc == JsonLd("{\"description\": 5}")

SessionDocs == {Scenario1Doc, Scenario2Doc, Scenario3Doc, NumberDoc}

\* the two windows of Configs, each with verbose off and on
SessionConfigs == {<<c[1], c[2], v>> : c \in Configs, v \in BOOLEAN}

MaxSessionCalls == 2

InitSession ==
    /\ PipelineIdle
    /\ \E c \in SessionConfigs : min_length = c[1] /\ max_length = c[2] /\ verbose = c[3]
    /\ html_content = ""
    /\ abstracts = <<>>
    /\ text = ""
    /\ Idle

\* a call that hands back the previous result when the document is the one of
\* the previous call
CallOnCached(name, html, o) ==
    /\ calls < MaxSessionCalls
    /\ op' = name
    /\ html_content' = html
    /\ all_abstracts' = o.all_abstracts
    /\ filtered' = o.filtered
    /\ unique_abstracts' = o.unique_abstracts
    /\ result' = (IF calls > 0 /\ html = html_content THEN result ELSE o.result)
    /\ raised' = o.raised
    /\ calls' = calls + 1
    /\ UNCHANGED pipeline_vars
    /\ UNCHANGED <<min_length, max_length, verbose, abstracts, text>>

\* a public call `name` on document html with outcome o
CallOn(name, html, o) ==
    /\ calls < MaxSessionCalls
    /\ op' = name
    /\ html_content' = html
    /\ all_abstracts' = o.all_abstracts
    /\ filtered' = o.filtered
    /\ unique_abstracts' = o.unique_abstracts
    /\ result' = o.result
    /\ raised' = o.raised
    /\ calls' = calls + 1
    /\ UNCHANGED pipeline_vars
    /\ UNCHANGED <<min_length, max_length, verbose, abstracts, text>>

\* extract that gives up after the candidate count when verbose is on
ExtractOnLoud ==
    \E d \in SessionDocs :
        CallOn("extract", d,
               IF verbose THEN Outcome(CandidatePool(d), <<>>, <<>>, PyNone, "")
               ELSE extract(d, min_length, max_length))

ExtractOn ==
    \E d \in SessionDocs : CallOn("extract", d, extract(d, min_length, max_length))

ExtractAllOn ==
    \E d \in SessionDocs : CallOn("extract_all", d, extract_all(d, min_length, max_length))

ExtractWithMetadataOn ==
    \E d \in SessionDocs :
        CallOn("extract_with_metadata", d, extract_with_metadata(d, min_length, max_length))

NextSession == ExtractOn \/ ExtractAllOn \/ ExtractWithMetadataOn

SpecSession == InitSession /\ [][NextSession]_vars

-----------------------------------------------------------------------------
(* DatabaseConnection.insert_row_by_row (etl_openalex_simplified.py), one   *)
(* iteration of its for loop per step.  A row is modelled by what the       *)
(* database does with its INSERT: "inserted", "conflict" (ON CONFLICT DO    *)
(* NOTHING: no error, no new row), "execute_error" (cursor.execute raises   *)
(* psycopg2.Error) or "commit_error" (conn.commit raises it).  Every method *)
(* of DatabaseConnection commits or rolls back before it returns, so the    *)
(* transaction is empty when the call starts; the connection stays open, so *)
(* conn.rollback() itself does not raise.                                   *)

RowOutcomes == {"inserted", "conflict", "execute_error", "commit_error"}

MaxRows == 3

InitLoader ==
    /\ min_length = 50 /\ max_length = 5000 /\ verbose = FALSE
    /\ html_content = "" /\ abstracts = <<>> /\ text = ""
    /\ Idle
    /\ HalIdle /\ ScraperIdle
    /\ rows \in SeqsUpTo(RowOutcomes, MaxRows)
    /\ row_number = 0 /\ inserted = 0
    /\ transaction = <<>> /\ table_rows = <<>> /\ rolled_back = <<>>
    /\ loader_pc = "loop"

\* self.cursor.execute(query, values) for row k: the open transaction after a
\* statement that did not raise
execute(tx, k, outcome) == IF outcome = "conflict" THEN tx ELSE Append(tx, k)

\* a commit that writes nothing
commit_nothing(table, tx) == table

\* self.conn.commit(): the table once the open transaction is committed
commit(table, tx) == table \o tx

\* if not rows: return 0
ReturnNoRows ==
    /\ loader_pc = "loop"
    /\ Len(rows) = 0
    /\ loader_pc' = "returned"
    /\ UNCHANGED <<rows, row_number, inserted, transaction, table_rows, rolled_back>>
    /\ UNCHANGED <<extractor_vars, hal_vars, scraper_vars>>

\* an iteration whose execute and commit raise nothing: inserted += 1
RowCommitted ==
    /\ loader_pc = "loop"
    /\ row_number < Len(rows)
    /\ rows[row_number + 1] \in {"inserted", "conflict"}
    /\ row_number' = row_number + 1
    /\ table_rows' = commit(table_rows, execute(transaction, row_number + 1, rows[row_number + 1]))
    /\ transaction' = <<>>
    /\ inserted' = inserted + 1
    /\ UNCHANGED <<rows, rolled_back, loader_pc>>
    /\ UNCHANGED <<extractor_vars, hal_vars, scraper_vars>>

\* an iteration whose execute or commit raises psycopg2.Error: the except branch
\* rolls the open transaction back and the loop goes on
RowSkipped ==
    /\ loader_pc = "loop"
    /\ row_number < Len(rows)
    /\ rows[row_number + 1] \in {"execute_error", "commit_error"}
    /\ row_number' = row_number + 1
    /\ rolled_back' = Append(rolled_back,
                             IF rows[row_number + 1] = "commit_error"
                             THEN execute(transaction, row_number + 1, rows[row_number + 1])
                             ELSE transaction)
    /\ transaction' = <<>>
    /\ UNCHANGED <<rows, inserted, table_rows, loader_pc>>
    /\ UNCHANGED <<extractor_vars, hal_vars, scraper_vars>>

\* return inserted, once the loop has taken every row
ReturnInserted ==
    /\ loader_pc = "loop"
    /\ Len(rows) > 0
    /\ row_number = Len(rows)
    /\ loader_pc' = "returned"
    /\ UNCHANGED <<rows, row_number, inserted, transaction, table_rows, rolled_back>>
    /\ UNCHANGED <<extractor_vars, hal_vars, scraper_vars>>

NextLoader == ReturnNoRows \/ RowCommitted \/ RowSkipped \/ ReturnInserted

SpecLoader == InitLoader /\ [][NextLoader]_vars

-----------------------------------------------------------------------------
(* fetch_morocco_struct (etl_hal.py), one iteration of its for loop per      *)
(* step.  The server is free: to each request it answers with a page (docs   *)
(* and a nextCursorMark, which may be missing or empty), or the request      *)
(* fails: requests.get raises (it has timeout=60), raise_for_status raises,  *)
(* or the body is not the expected JSON.                                     *)

\* the cursor marks of the server; "None" stands for a missing nextCursorMark
CursorMarks == {"*", "AoE", "AoF"}
NextMarks == CursorMarks \cup {"None", ""}

\* the docs of the n-th page when it holds count of them
PageDocs(n, count) == [i \in 1..count |-> 10 * n + i]

MaxPerPage == 2
MaxPageLimit == 3

InitHal ==
    /\ min_length = 50 /\ max_length = 5000 /\ verbose = FALSE
    /\ html_content = "" /\ abstracts = <<>> /\ text = ""
    /\ Idle
    /\ LoaderIdle /\ ScraperIdle
    /\ max_pages \in 0..MaxPageLimit
    /\ cursor = "*"
    /\ all_docs = <<>>
    /\ page = 0
    /\ sent = <<>> /\ received = <<>>
    /\ hal_pc = "loop"

\* if not next_cursor or next_cursor == cursor
Stops(next_cursor, cur) == next_cursor \in {"None", ""} \/ next_cursor = cur

\* the documents collected when the check on the cursor comes before the extend
ExtendUnlessLast(all, docs, next_cursor, cur) ==
    IF Stops(next_cursor, cur) THEN all ELSE all \o docs

\* all_docs.extend(docs)
Extend(all, docs, next_cursor, cur) == all \o docs

\* requests.get(BASE, params) with cursorMark = cursor, answered by the page j
Request(j) ==
    /\ hal_pc = "loop"
    /\ page < max_pages
    /\ page' = page + 1
    /\ sent' = Append(sent, cursor)
    /\ received' = Append(received, j)

\* an iteration whose page has no docs: break
PageEmpty ==
    /\ \E next_cursor \in NextMarks : Request([docs |-> <<>>, nextCursorMark |-> next_cursor])
    /\ hal_pc' = "returned"
    /\ UNCHANGED <<max_pages, cursor, all_docs>>
    /\ UNCHANGED <<extractor_vars, loader_vars, scraper_vars>>

\* an iteration whose page has docs and no new cursor: extend, then break
PageLast ==
    /\ \E count \in 1..MaxPerPage, next_cursor \in NextMarks :
          /\ Stops(next_cursor, cursor)
          /\ Request([docs |-> PageDocs(page + 1, count), nextCursorMark |-> next_cursor])
          /\ all_docs' = Extend(all_docs, PageDocs(page + 1, count), next_cursor, cursor)
    /\ hal_pc' = "returned"
    /\ UNCHANGED <<max_pages, cursor>>
    /\ UNCHANGED <<extractor_vars, loader_vars, scraper_vars>>

\* an iteration whose page has docs and a new cursor: extend, cursor = next_cursor
PageMore ==
    /\ \E count \in 1..MaxPerPage, next_cursor \in NextMarks :
          /\ ~Stops(next_cursor, cursor)
          /\ Request([docs |-> PageDocs(page + 1, count), nextCursorMark |-> next_cursor])
          /\ all_docs' = Extend(all_docs, PageDocs(page + 1, count), next_cursor, cursor)
          /\ cursor' = next_cursor
    /\ UNCHANGED <<max_pages, hal_pc>>
    /\ UNCHANGED <<extractor_vars, loader_vars, scraper_vars>>

\* an iteration whose request raises: the exception leaves the function
RequestFails ==
    /\ hal_pc = "loop"
    /\ page < max_pages
    /\ page' = page + 1
    /\ sent' = Append(sent, cursor)
    /\ hal_pc' = "raised"
    /\ UNCHANGED <<max_pages, cursor, all_docs, received>>
    /\ UNCHANGED <<extractor_vars, loader_vars, scraper_vars>>

\* range(max_pages) is exhausted: return all_docs
PagesExhausted ==
    /\ hal_pc = "loop"
    /\ page = max_pages
    /\ hal_pc' = "returned"
    /\ UNCHANGED <<max_pages, cursor, all_docs, page, sent, received>>
    /\ UNCHANGED <<extractor_vars, loader_vars, scraper_vars>>

NextHal == PageEmpty \/ PageLast \/ PageMore \/ RequestFails \/ PagesExhausted

\* the function is one thread that runs on: a request returns or raises within its
\* timeout, so an iteration that can be taken is taken
SpecHal == InitHal /\ [][NextHal]_vars /\ WF_vars(NextHal)

-----------------------------------------------------------------------------
(* The scrape loop of Abstract_scrapper.py, one row of results per step.     *)
(* The browser and the page are free: loading the page may raise, the page   *)
(* may hold an abstract or none; a doi that is None makes doi.startswith     *)
(* raise inside the try.                                                     *)

\* rows of SELECT work_id, doi FROM fact_works ("None" stands for a NULL doi)
WorkRows == {<<"W1", "10.1/x">>, <<"W2", "https://doi.org/10.2/y">>, <<"W3", "None">>}

MaxResults == 3

\* errors_csv_writer.writerow(["work_id", "doi", "error_message"])
CsvHeader == <<"work_id", "doi", "error_message">>

InitScraper ==
    /\ min_length = 50 /\ max_length = 5000 /\ verbose = FALSE
    /\ html_content = "" /\ abstracts = <<>> /\ text = ""
    /\ Idle
    /\ LoaderIdle /\ HalIdle
    /\ results \in SeqsUpTo(WorkRows, MaxResults)
    /\ scraped = 0
    /\ failed_links = <<CsvHeader>>
    /\ saved = <<>>
    /\ scraper_pc = "loop"

\* the loop takes the next row
TakeRow ==
    /\ scraper_pc = "loop"
    /\ scraped < Len(results)
    /\ scraped' = scraped + 1

\* an iteration that reaches f.write(abstract)
RowSaved ==
    /\ TakeRow
    /\ results[scraped + 1][2] # "None"
    /\ saved' = Append(saved, results[scraped + 1][1])
    /\ UNCHANGED <<results, failed_links, scraper_pc>>
    /\ UNCHANGED <<extractor_vars, loader_vars, hal_vars>>

\* an iteration where extract_abstract returns None: continue
RowWithoutAbstract ==
    /\ TakeRow
    /\ results[scraped + 1][2] # "None"
    /\ UNCHANGED <<results, failed_links, saved, scraper_pc>>
    /\ UNCHANGED <<extractor_vars, loader_vars, hal_vars>>

\* an iteration where the try block raises (always so for a doi that is None):
\* errors_csv_writer.writerow([work_id, doi])
RowFailed ==
    /\ TakeRow
    /\ failed_links' = Append(failed_links, <<results[scraped + 1][1], results[scraped + 1][2]>>)
    /\ UNCHANGED <<results, saved, scraper_pc>>
    /\ UNCHANGED <<extractor_vars, loader_vars, hal_vars>>

\* the loop is over: cleanup
ScrapingCompleted ==
    /\ scraper_pc = "loop"
    /\ scraped = Len(results)
    /\ scraper_pc' = "done"
    /\ UNCHANGED <<results, scraped, failed_links, saved>>
    /\ UNCHANGED <<extractor_vars, loader_vars, hal_vars>>

NextScraper == RowSaved \/ RowWithoutAbstract \/ RowFailed \/ ScrapingCompleted

SpecScraper == InitScraper /\ [][NextScraper]_vars

-----------------------------------------------------------------------------
(* Properties.                                                              *)

\* C1: any two different entries of the list returned by extract_all differ in
\* character length by at least 50 and are unequal strings
C1_ResultsPairwiseDistinct ==
    (op = "extract_all" /\ result.kind = "list") =>
        \A i, j \in 1..Len(result.list) : i # j =>
            /\ AbsDiff(Len(result.list[i]), Len(result.list[j])) >= 50
            /\ result.list[i] # result.list[j]

\* extract_all returned several texts after deduplication dropped a filtered one
C1_Witness ==
    /\ op = "extract_all"
    /\ Len(result.list) >= 2
    /\ Len(filtered) > Len(result.list)

\* the four checks of the quality filter, as the claim C2 words them
C2_FourChecks(t) ==
    /\ min_length <= Len(t) /\ Len(t) <= max_length
    /\ 10 <= WordCount(t) /\ WordCount(t) <= 1000
    /\ LongSentences(t) >= 2
    /\ 10 * UpperCount(t) <= 4 * Len(t)

\* the candidates of the input whose normalized text satisfies the four checks
C2_Kept == {k \in 1..Len(abstracts) : C2_FourChecks(clean_html(abstracts[k]))}

\* C2: _filter_quality_abstracts keeps the normalized text of a candidate if and
\* only if the four checks hold (length in [min_length, max_length], word count
\* in [10, 1000], at least two segments with more than three words, uppercase
\* ratio at most 0.4); its output is these normalized texts in input order
C2_FilterKeepsIffFourChecks ==
    op = "_filter_quality_abstracts" =>
        /\ Len(filtered) = Cardinality(C2_Kept)
        /\ \A k \in C2_Kept :
              filtered[Cardinality({j \in C2_Kept : j <= k})] = clean_html(abstracts[k])
        /\ \A j \in 1..Len(filtered) : C2_FourChecks(filtered[j])

\* the filter kept one candidate of its input, normalized, and rejected the other
C2_Witness ==
    /\ op = "_filter_quality_abstracts"
    /\ Len(abstracts) = 2
    /\ Len(filtered) = 1
    /\ filtered[1] # abstracts[1]
    /\ filtered[1] = clean_html(abstracts[1])

\* C3: extract returns the maximum-length text among the candidates that survive
\* filtering and deduplication, the earliest one when several share that length
C3_ExtractReturnsLongest ==
    (op = "extract" /\ raised = "") =>
        IF Len(unique_abstracts) = 0 THEN result = PyNone
        ELSE /\ result.kind = "str"
             /\ \E k \in 1..Len(unique_abstracts) :
                   /\ result.text = unique_abstracts[k]
                   /\ \A j \in 1..Len(unique_abstracts) :
                         Len(unique_abstracts[j]) <= Len(unique_abstracts[k])
                   /\ \A j \in 1..(k - 1) :
                         Len(unique_abstracts[j]) < Len(unique_abstracts[k])

\* extract chose among several survivors one that was not generated first
C3_Witness ==
    /\ op = "extract"
    /\ result.kind = "str"
    /\ Len(unique_abstracts) >= 2
    /\ result.text # unique_abstracts[1]

\* how many times text t occurs in the sequence seq
C4_Count(seq, t) == Cardinality({j \in 1..Len(seq) : seq[j] = t})

\* C4: extract_all returns every text that survives filtering and deduplication,
\* ordered by non-increasing length, none lost or added by the sort
C4_ExtractAllSortedSurvivors ==
    (op = "extract_all" /\ raised = "") =>
        /\ result.kind = "list"
        /\ Len(result.list) = Len(unique_abstracts)
        /\ \A j \in 1..Len(unique_abstracts) :
              C4_Count(result.list, unique_abstracts[j]) = C4_Count(unique_abstracts, unique_abstracts[j])
        /\ \A i \in 1..(Len(result.list) - 1) :
              Len(result.list[i]) >= Len(result.list[i + 1])

\* extract_all returned several survivors in another order than they were generated
C4_Witness ==
    /\ op = "extract_all"
    /\ Len(result.list) >= 2
    /\ result.list # unique_abstracts

\* C5: extract, extract_all and extract_with_metadata never raise: each call ends
\* in a text, a list, a record or the none result
C5_NeverRaises ==
    op \in {"extract", "extract_all", "extract_with_metadata"} =>
        /\ raised = ""
        /\ result.kind \in {"None", "str", "list", "dict"}

\* C6: a JSON-LD block that does not parse or has not the expected shape (a
\* description / abstract / author.description that is not a text) contributes
\* no candidate and raises nothing in a later stage
C6_MalformedJsonLdSkipped ==
    op \in {"extract", "extract_all", "extract_with_metadata"} =>
        /\ \A k \in 1..Len(all_abstracts) : all_abstracts[k].type = "str"
        /\ result.kind # "exception"

\* C7: extract returns None, and extract_all the empty list, exactly when no
\* candidate passes the quality filter, and this is a return value, never an
\* exception
C7_AbsenceIsAReturnValue ==
    /\ op = "extract" => (IF Len(filtered) = 0 THEN result = PyNone ELSE result.kind = "str")
    /\ op = "extract_all" =>
          (IF Len(filtered) = 0 THEN result = PyList(<<>>)
           ELSE result.kind = "list" /\ Len(result.list) > 0)

\* C8: normalization is idempotent: _clean_html(_clean_html(s)) = _clean_html(s)
C8_CleanIdempotent ==
    op = "_clean_html" => clean_html(result.text) = result.text

\* C9: _remove_duplicates keeps a text if and only if no previously kept text has
\* a length differing from its own by less than 50; its output is the kept texts
\* in input order (K is the set of the indices kept)
C9_DedupKeepsFirstOfNear ==
    op = "_remove_duplicates" =>
        \E K \in SUBSET (1..Len(abstracts)) :
            /\ \A k \in 1..Len(abstracts) :
                  k \in K <=> ~ \E j \in K :
                                  j < k /\ AbsDiff(Len(abstracts[k]), Len(abstracts[j])) < 50
            /\ Len(unique_abstracts) = Cardinality(K)
            /\ \A k \in K : unique_abstracts[Cardinality({j \in K : j <= k})] = abstracts[k]

\* a near-duplicate was dropped and two texts exactly 50 apart were both kept
C9_Witness ==
    /\ op = "_remove_duplicates"
    /\ Len(unique_abstracts) < Len(abstracts)
    /\ \E i, j \in 1..Len(unique_abstracts) :
          Len(unique_abstracts[i]) + 50 = Len(unique_abstracts[j])

\* C10: the candidate pool given to the filter is the structural-pattern matches
\* (in rule order), then the JSON-LD values, then the meta-tag values, whatever
\* the other strategies found
C10_PoolIsConcatenation ==
    op \in {"extract", "extract_all", "extract_with_metadata"} =>
        all_abstracts = StrCandidates(extract_patterns(html_content))
                        \o extract_json_ld(html_content)
                        \o StrCandidates(extract_meta_tags(html_content))

\* a call on a document in which all three strategies found candidates
C10_Witness ==
    /\ op = "extract_all"
    /\ Len(extract_patterns(html_content)) > 0
    /\ Len(extract_json_ld(html_content)) > 0
    /\ Len(extract_meta_tags(html_content)) > 0
    /\ Len(all_abstracts) = Len(extract_patterns(html_content))
          + Len(extract_json_ld(html_content)) + Len(extract_meta_tags(html_content))

\* what the public method `name` does with document html on an extractor that
\* was just built with the window minlen..maxlen
FreshCall(name, html, minlen, maxlen) ==
    CASE name = "extract" -> extract(html, minlen, maxlen)
      [] name = "extract_all" -> extract_all(html, minlen, maxlen)
      [] name = "extract_with_metadata" -> extract_with_metadata(html, minlen, maxlen)

\* a call returned res and raised exc, as the outcome fresh has them
C11_SameOutcome(fresh, res, exc) == res = fresh.result /\ exc = fresh.raised

C13_Field(d, key) == d[CHOOSE j \in 1..Len(d) : d[j][1] = key][2]

\* C13: extract_with_metadata returns None exactly when extract returns None on
\* the same document, and otherwise a record whose text is extract's result and
\* whose length, word count, sentence-segment count and digit flag are those of
\* that text
C13_MetadataWrapsExtract ==
    op = "extract_with_metadata" =>
        LET best == extract(html_content, min_length, max_length).result
        IN  IF best.kind = "None" THEN result = PyNone
            ELSE IF best.kind = "exception" THEN result.kind = "exception"
            ELSE /\ result.kind = "dict"
                 /\ C13_Field(result.dict, "abstract") = best.text
                 /\ C13_Field(result.dict, "length") = Len(best.text)
                 /\ C13_Field(result.dict, "word_count") = WordCount(best.text)
                 /\ C13_Field(result.dict, "sentence_count")
                       = Len(SentenceSplit(best.text))
                 /\ C13_Field(result.dict, "has_numbers")
                       = (\E i \in 1..Len(best.text) : At(best.text, i) \in DigitChars)

\* extract_with_metadata returned a record for a text with digits
C13_Witness ==
    /\ op = "extract_with_metadata"
    /\ result.kind = "dict"
    /\ C13_Field(result.dict, "has_numbers") = TRUE
    /\ C13_Field(result.dict, "word_count") < C13_Field(result.dict, "length")

\* C14: the record returned by extract_with_metadata has exactly the fields
\* text, length, word_count, sentence_count and has_digit
C14_RecordFields ==
    (op = "extract_with_metadata" /\ result.kind = "dict") =>
        {result.dict[j][1] : j \in 1..Len(result.dict)}
            = {"text", "length", "word_count", "sentence_count", "has_digit"}

\* the text w occurs in s
C15_Contains(s, w) ==
    \E i \in 1..(Len(s) - Len(w) + 1) : SubSeq(s, i, i + Len(w) - 1) = w

\* the code that the raw texts of RawTexts hold inside script blocks, and nowhere else
C15_Code == "evil()"

\* C15: the normalizer's output holds no markup tag (stripping tags again would
\* change nothing) and no text taken from inside a script block
C15_NoCodeOrMarkupInOutput ==
    op = "_clean_html" =>
        /\ RemoveTags(result.text) = result.text
        /\ ~C15_Contains(result.text, C15_Code)

\* &#?\w+; : an entity as it stands in a text
C16_Entity == << <<Lit("&#"), Plus(WordChars, FALSE), Lit(";")>>,
                 <<Lit("&"), Plus(WordChars, FALSE), Lit(";")>> >>

\* the table's character for the entity e, or nothing for an entity outside the table
C16_Decoded(e) ==
    IF \E k \in 1..Len(html_entities) : html_entities[k][1] = e
    THEN html_entities[CHOOSE k \in 1..Len(html_entities) : html_entities[k][1] = e][2]
    ELSE ""

\* the text before each of the entities taken[lo..hi] of s, each followed by what
\* the entity decodes to
RECURSIVE C16_Pieces(_, _, _, _)
C16_Pieces(s, taken, lo, hi) ==
    IF lo > hi THEN ""
    ELSE IF lo = hi
         THEN SubSeq(s, IF lo = 1 THEN 1 ELSE taken[lo - 1][2], taken[lo][1] - 1)
              \o C16_Decoded(SubSeq(s, taken[lo][1], taken[lo][2] - 1))
    ELSE LET m == (lo + hi) \div 2
         IN  C16_Pieces(s, taken, lo, m) \o C16_Pieces(s, taken, m + 1, hi)

\* s with each of its entities decoded by the table or removed, the rest untouched
C16_EachEntityOnce(s) ==
    LET taken == TakeAll(Matches(s, C16_Entity, StartsIn(s, {"&"}, FALSE)), Len(s))
    IN  IF Len(taken) = 0 THEN s
        ELSE C16_Pieces(s, taken, 1, Len(taken)) \o SubSeq(s, taken[Len(taken)][2], Len(s))

\* C16: the entity step replaces each entity of the table by the table's character,
\* removes every other entity, and leaves the text that is not an entity of the
\* input as it is
C16_EntityStepTouchesOnlyEntities ==
    op = "entities" => result.text = C16_EachEntityOnce(text)

\* s ends with w
C17_EndsWith(s, w) ==
    Len(s) >= Len(w) /\ SubSeq(s, Len(s) - Len(w) + 1, Len(s)) = w

\* s without its last n characters and the whitespace before them
C17_Without(s, n) == SubSeq(s, 1, LastNonSpace(s, 1, Len(s) - n))

\* s without a trailing "Show More" (in any letter case), then without a trailing "..."
C17_WithoutShowMore(s) ==
    IF C17_EndsWith(LowerStr(s), "show more") THEN C17_Without(s, 9) ELSE s
C17_WithoutDots(s) ==
    IF C17_EndsWith(s, "...") THEN C17_Without(s, 3) ELSE s

\* C17: the last step removes a trailing "Show More" suffix and a trailing "..." and
\* keeps all text before them; a text with no such trailing suffix is unchanged
C17_StripsOnlyTrailingSuffix ==
    op = "suffix" => result.text = C17_WithoutDots(C17_WithoutShowMore(text))

\* the length window of the extractor admits the text t
Admits(t) == min_length <= Len(t) /\ Len(t) <= max_length

\* C18 (scenario 1): on the page whose <div class="abstract"> wraps the 120 words of
\* Scenario1Text, with a length window that admits them, two rules capture the same
\* div and extract returns exactly the normalized text of its content
C18_Scenario1BestOf ==
    (op = "extract" /\ html_content = Scenario1Doc /\ Admits(Scenario1Text)) =>
        /\ Len(all_abstracts) = 2
        /\ all_abstracts[1] = all_abstracts[2]
        /\ WordCount(Scenario1Text) = 120
        /\ raised = ""
        /\ result = PyText(Scenario1Text)

\* extract returned the 120 words of scenario 1
C18_Witness ==
    /\ op = "extract"
    /\ html_content = Scenario1Doc
    /\ Len(all_abstracts) = 2
    /\ result.kind = "str"
    /\ WordCount(result.text) = 120

\* C19 (scenario 3): on the page that holds one abstract in a JSON-LD description and
\* in <section id="Abs1">, extract_all finds both, both pass the filter with lengths
\* less than 50 apart, deduplication keeps the structural one (the first) and the
\* call returns exactly that one text
C19_Scenario3CollapsesToOne ==
    (op = "extract_all" /\ html_content = Scenario3Doc /\ Admits(Scenario3Text)) =>
        /\ Len(all_abstracts) = 2
        /\ SubSeq(all_abstracts[1].val, 1, 8) = "<section"
        /\ all_abstracts[2].val = Scenario3Text
        /\ Len(filtered) = 2
        /\ AbsDiff(Len(filtered[1]), Len(filtered[2])) < 50
        /\ unique_abstracts = <<filtered[1]>>
        /\ raised = ""
        /\ result = PyList(<<Scenario3Text>>)

\* extract_all on the page of scenario 3 dropped one of two filtered texts
C19_Witness ==
    /\ op = "extract_all"
    /\ html_content = Scenario3Doc
    /\ Len(filtered) = 2
    /\ Len(result.list) = 1

\* C20 (scenario 2): under the default configuration, on the page whose only candidate
\* is the meta description of 15 characters, extract returns None: the candidate is
\* shorter than the minimum length of 50 and nothing passes the filter
C20_Scenario2NoneFound ==
    (op = "extract" /\ html_content = Scenario2Doc /\ min_length = 50 /\ max_length = 5000) =>
        /\ Len(extract_patterns(html_content)) = 0
        /\ Len(extract_json_ld(html_content)) = 0
        /\ Len(all_abstracts) = 1
        /\ all_abstracts[1].val = "A short summary"
        /\ Len(clean_html(all_abstracts[1].val)) = 15
        /\ Len(clean_html(all_abstracts[1].val)) < min_length
        /\ filtered = <<>>
        /\ raised = ""
        /\ result = PyNone

\* extract on the page of scenario 2, under the default configuration, found the
\* meta description and returned None
C20_Witness ==
    /\ op = "extract"
    /\ html_content = Scenario2Doc
    /\ min_length = 50 /\ max_length = 5000
    /\ Len(all_abstracts) = 1
    /\ result = PyNone

\* every letter of s is a capital
C21_AllUppercase(s) == \A i \in 1..Len(s) : At(s, i) \notin LowerChars

\* C21 (scenario 4): on a page whose only candidate is a heading of 80 characters in
\* capitals, the candidate's share of capitals is above 0.4, nothing passes the filter
\* and extract returns None
C21_Scenario4UppercaseRejected ==
    (op = "extract" /\ html_content \in Scenario4Docs) =>
        /\ Len(all_abstracts) = 1
        /\ Len(clean_html(all_abstracts[1].val)) = 80
        /\ C21_AllUppercase(clean_html(all_abstracts[1].val))
        /\ 10 * UpperCount(clean_html(all_abstracts[1].val)) > 4 * 80
        /\ filtered = <<>>
        /\ raised = ""
        /\ result = PyNone

\* extract on the page whose heading has four sentences of five words: only the
\* check on capitals stands between the heading and the result
C21_Witness ==
    /\ op = "extract"
    /\ html_content = Scenario4Page(Heading4Sentences)
    /\ Len(all_abstracts) = 1
    /\ PassesChecksAnyCase(clean_html(all_abstracts[1].val), min_length, max_length)
    /\ result = PyNone

\* C22: a container rule finds its container wherever the marker attribute stands,
\* and every candidate it emits is the whole container, from its opening tag to its
\* own closing tag, whatever the content (several lines, nested children)
C22_WholeContainerCaptured ==
    op = "_extract_patterns" =>
        /\ Len(abstracts) >= 1
        /\ \A j \in 1..Len(abstracts) : abstracts[j] = text

\* the numbers k of 1..n, in order, whose row has one of the outcomes
RECURSIVE C23_RowsWith(_, _)
C23_RowsWith(outcomes, n) ==
    IF n = 0 THEN <<>>
    ELSE C23_RowsWith(outcomes, n - 1) \o (IF rows[n] \in outcomes THEN <<n>> ELSE <<>>)

\* C23: insert_row_by_row allows partial success.  After any number of rows the
\* counter is the number of rows whose execute and commit raised nothing, the table
\* holds every row inserted so far (a later error never removes one), no transaction
\* is left open, and every rollback discarded at most the failing row itself; the
\* call returns only after the last row, and never a count above the number of rows
C23_PartialSuccess ==
    loader_pc # "idle" =>
        /\ inserted = Len(C23_RowsWith({"inserted", "conflict"}, row_number))
        /\ table_rows = C23_RowsWith({"inserted"}, row_number)
        /\ transaction = <<>>
        /\ Len(rolled_back) = Len(C23_RowsWith({"execute_error", "commit_error"}, row_number))
        /\ \A j \in 1..Len(rolled_back) :
              LET failed == C23_RowsWith({"execute_error", "commit_error"}, row_number)[j]
              IN  rolled_back[j] = IF rows[failed] = "commit_error" THEN <<failed>> ELSE <<>>
        /\ loader_pc = "returned" => (row_number = Len(rows) /\ inserted <= Len(rows))

\* the call returned after a row failed and a later row was inserted
C23_Witness ==
    /\ loader_pc = "returned"
    /\ \E j, k \in 1..Len(rows) :
          j < k /\ rows[j] \in {"execute_error", "commit_error"} /\ rows[k] = "inserted"
    /\ inserted >= 1
    /\ inserted < Len(rows)

\* what extract returned (res) against what extract_all gives on the same call (o)
C24_FirstOfAll(res, o) ==
    /\ res.kind = "exception" <=> o.result.kind = "exception"
    /\ res.kind = "None" <=> (o.result.kind = "list" /\ Len(o.result.list) = 0)
    /\ res.kind = "str" =>
          (o.result.kind = "list" /\ Len(o.result.list) >= 1 /\ o.result.list[1] = res.text)

\* C24: the text extract returns is the first element of what extract_all returns on
\* the same document and configuration, and extract returns None exactly when
\* extract_all returns the empty list
C24_ExtractIsFirstOfExtractAll ==
    op = "extract" =>
        C24_FirstOfAll(result, extract_all(html_content, min_length, max_length))

\* extract returned a text that deduplication did not leave in first place
C24_Witness ==
    /\ op = "extract"
    /\ result.kind = "str"
    /\ Len(unique_abstracts) >= 2
    /\ unique_abstracts[1] # result.text

\* C25: whenever some candidate passes the quality filter, the text extract returns
\* is at most 49 characters shorter than the longest candidate that passed
C25_DedupCostsUnder50 ==
    (op = "extract" /\ Len(filtered) > 0) =>
        /\ result.kind = "str"
        /\ Len(result.text) + 49 >= Len(MaxByLen(filtered))

\* extract returned a text shorter than the longest candidate that passed the filter
C25_Witness ==
    /\ op = "extract"
    /\ Len(filtered) > 0
    /\ result.kind = "str"
    /\ Len(result.text) < Len(MaxByLen(filtered))

\* the texts of seq whose branch in rs is "kept", in order
RECURSIVE C30_Kept(_, _, _)
C30_Kept(seq, rs, n) ==
    IF n = 0 THEN <<>>
    ELSE C30_Kept(seq, rs, n - 1) \o (IF rs[n] = "kept" THEN <<seq[n]>> ELSE <<>>)

\* the branches rs account for the list uniq the call returned, and none is "exact"
C30_NeverExact(seq, rs, uniq) ==
    /\ Len(rs) = Len(seq)
    /\ C30_Kept(seq, rs, Len(seq)) = uniq
    /\ \A k \in 1..Len(rs) : rs[k] # "exact"

\* C30: in _remove_duplicates a text equal to a kept text is always skipped by the
\* length test, so the `abstract in unique_abstracts` branch never drops a text
C30_ExactTestSubsumed ==
    op = "_remove_duplicates" =>
        C30_NeverExact(abstracts, Reasons(abstracts, 1, <<>>, {}), unique_abstracts)

\* a text equal to an earlier one was dropped
C30_Witness ==
    /\ op = "_remove_duplicates"
    /\ Len(unique_abstracts) < Len(abstracts)
    /\ \E j, k \in 1..Len(abstracts) : j < k /\ abstracts[j] = abstracts[k]

\* _clean_html with an entity step that reads each entity of its input once
C26_CleanSinglePass(s) ==
    RemoveDots(RemoveShowMore(Strip(CollapseSpace(C16_EachEntityOnce(
        RemoveTags(RemoveComments(RemoveBloat(RemoveStyles(RemoveScripts(s))))))))))

\* C26: entity decoding is single-pass: what decoding one entity produces is never
\* read as an entity or as part of one, so _clean_html gives what it would give with
\* each entity of the tag-stripped text decoded (or dropped) once
C26_SinglePassDecoding ==
    op = "_clean_html" => result.text = C26_CleanSinglePass(text)

\* C27: a string returned by _clean_html has no whitespace at its ends, no whitespace
\* character other than the space, and no two spaces in a row
C27_WhitespaceNormalized ==
    op = "_clean_html" =>
        /\ \A i \in 1..Len(result.text) : At(result.text, i) \notin (SpaceChars \ {" "})
        /\ Len(result.text) > 0 =>
              (At(result.text, 1) # " " /\ At(result.text, Len(result.text)) # " ")
        /\ \A i \in 1..(Len(result.text) - 1) :
              ~(At(result.text, i) = " " /\ At(result.text, i + 1) = " ")

\* _clean_html returned a text with a space inside for an input with blanks at its
\* start, a run of mixed whitespace inside and a blank before a trailing "..."
C27_Witness ==
    /\ op = "_clean_html"
    /\ text = "  a \n\t b ..."
    /\ result.text = "a b"

\* the docs of the pages ps[1..n], in page order
RECURSIVE C28_DocsOf(_, _)
C28_DocsOf(ps, n) == IF n = 0 THEN <<>> ELSE C28_DocsOf(ps, n - 1) \o ps[n].docs

\* the k-th page received ends the loop: it is empty, or its nextCursorMark is
\* missing, empty or the cursor of the request it answers
C28_StoppingPage(k) ==
    \/ Len(received[k].docs) = 0
    \/ received[k].nextCursorMark \in {"None", ""}
    \/ received[k].nextCursorMark = sent[k]

C28_Safe ==
    hal_pc # "idle" =>
        /\ page <= max_pages
        /\ Len(sent) = page
        /\ \A k \in 1..Len(sent) :
              sent[k] = IF k = 1 THEN "*" ELSE received[k - 1].nextCursorMark
        /\ \A k \in 1..(Len(received) - 1) : ~C28_StoppingPage(k)
        /\ (hal_pc = "loop" /\ Len(received) > 0) => ~C28_StoppingPage(Len(received))
        /\ all_docs = C28_DocsOf(received, Len(received))
        /\ hal_pc = "returned" =>
              \/ page = max_pages
              \/ (Len(received) > 0 /\ C28_StoppingPage(Len(received)))

\* C28: fetch_morocco_struct always ends, after at most max_pages requests; each
\* request carries the cursor the previous page returned; the loop stops at the first
\* page that is empty or brings no new cursor; and the docs of every page received
\* (the stopping page included) are in all_docs in page order
C28_FetchTerminates ==
    []C28_Safe /\ <>(hal_pc \in {"returned", "raised"})

\* the function returned the docs of three pages, the last of which stopped the loop
\* by repeating the cursor
C28_Witness ==
    /\ hal_pc = "returned"
    /\ Len(received) = 3
    /\ received[3].nextCursorMark = sent[3]
    /\ Len(all_docs) >= 3

\* C29: in the scrape loop a row that fails does not stop the rows after it (the
\* loop ends only once every row was taken), and every failure row of
\* failed_links.csv carries the three fields of the header
C29_FailuresLoggedWithMessage ==
    scraper_pc # "idle" =>
        /\ scraper_pc = "done" => scraped = Len(results)
        /\ failed_links[1] = <<"work_id", "doi", "error_message">>
        /\ \A k \in 2..Len(failed_links) : Len(failed_links[k]) = Len(failed_links[1])

====
